---- MODULE Spec2Model ----
(***************************************************************************)
(* Verification model of the storage-engine core: the persistent trie       *)
(* (src/primer/trie.cpp), the LRU-K replacer, the buffer pool manager, the  *)
(* page guards and the disk extendible hash table.                          *)
(***************************************************************************)
EXTENDS Integers, Sequences, FiniteSets, TLC

\* ------------------------------------------------------------------------
\* Bounds of the model
\* ------------------------------------------------------------------------
\* number of Put/Remove calls explored on the trie
MaxTrieOps == 3
\* pool_size of the buffer pool manager
PoolSize == 2
\* k of the LRU-K replacer
K == 2
\* page ids the model lets AllocatePage hand out: 0 .. MaxPages - 1
MaxPages == 3
\* the client pins one page at most this many times at once
MaxPin == 2
\* the writes a client makes to one page, each with a pattern of its own
MaxData == 1
\* guard objects the client holds at once
MaxGuards == 2
\* num_frames of the replacer a client calls directly, the largest k it is
\* built with (k is 2 .. MaxK), and the RecordAccess calls the client makes
ReplacerFrames == 3
MaxK == 3
MaxAccesses == 5
\* pool_size of the buffer pool manager under the hash table
HTPoolSize == 3
\* pool_size under the hash table that concurrent threads call
HTLivePoolSize == 4
\* page ids AllocatePage hands out under the hash table: 0 .. HTMaxPages - 1
HTMaxPages == 5
\* header_max_depth, directory_max_depth and bucket_max_size of the table
HeaderMaxDepth == 0
DirectoryMaxDepth == 2
BucketMaxSize == 1
\* the larger bucket_max_size of the tables on a pool that holds every page
LargeBucketMaxSize == 2
\* the keys of the table are 0 .. MaxKey, its values 1 .. MaxValue; the
\* concurrent threads pass the keys 0 .. MaxLiveKey
MaxKey == 4
MaxLiveKey == 3
MaxValue == 2
\* threads that call the table concurrently, and the calls each one makes
MaxThreads == 2
MaxCalls == 2

\* ------------------------------------------------------------------------
\* Generic helpers for maps with a varying domain (std::map, unordered_map)
\* ------------------------------------------------------------------------
MapSet(f, k, v) == [x \in (DOMAIN f) \cup {k} |-> IF x = k THEN v ELSE f[x]]

MapErase(f, k) == [x \in (DOMAIN f) \ {k} |-> f[x]]

EmptyMap == [x \in {} |-> 0]

VARIABLES
  heap,      \* trie nodes ever allocated (shared_ptr targets), by node id
  roots,     \* the tries built so far: root_ of each (0 is nullptr)
  trie_last, \* the last trie call: [op, base, key, value, before]
  frozen     \* per trie, what it answered and held when it was built

trieVars == <<heap, roots, trie_last, frozen>>

VARIABLES
  bpm,          \* the BufferPoolManager: pages_, page_table_, free_list_,
                \* replacer_, next_page_id_, and the disk behind it (disk_)
  latch,        \* Page::rwlatch_ of every frame: [readers, writer]
  raw_pins,     \* per page, the NewPage/FetchPage pins not yet unpinned
  raw_writers,  \* per page, how many of those pins have changed its bytes
  last_written, \* per page, the bytes most recently written to it
  discarded,    \* per page, whether DeletePage dropped it dirty since then
  bpm_last,     \* the last NewPage / FetchPage call or guard move, when no other call followed it
  guards,       \* the page guards of the client, by slot
  aborted       \* the process died on a null Page pointer

bpmVars == <<bpm, latch, raw_pins, raw_writers, last_written, discarded,
             bpm_last>>

guardVars == <<guards, aborted>>

VARIABLES
  ht,        \* the DiskExtendibleHashTable: header_page_id_
  th,        \* per thread, where it is in its call (pc) and its locals
  ht_map,    \* the map the calls that returned so far stand for
  unguarded, \* a page was read or written through a pointer while the
             \* thread held no guard (with the write latch, for a write) on it
  confused   \* a frame was read as a page kind its bytes do not hold

htVars == <<ht, th, ht_map, unguarded, confused>>

VARIABLES
  rep,       \* an LRUKReplacer that a client calls directly
  rep_hist,  \* per tracked frame, the times of its recorded accesses
  rep_clock, \* the RecordAccess calls made so far
  rep_out,   \* the frame_id_t that Evict writes its victim to
  rep_last   \* the last call of the client: [op, ok, before, hist, out]

repVars == <<rep, rep_hist, rep_clock, rep_out, rep_last>>

\* ------------------------------------------------------------------------
\* Persistent trie (src/primer/trie.cpp)
\* ------------------------------------------------------------------------
Chars == {"a", "b"}

\* the keys explored: empty, single-character, prefix and extension keys
Keys == {<<>>, <<"a">>, <<"b">>, <<"a", "b">>}

\* a stored value carries its dynamic type (TrieNodeWithValue<T>)
Types == {"u32", "u64"}

Values == {[ty |-> "u32", v |-> 1], [ty |-> "u64", v |-> 2]}

NoValue == [ty |-> "none", v |-> 0]

NullPtr == 0

\* std::make_shared<TrieNode>() / make_shared<TrieNode>(children)
TrieNode(children) ==
  [children_ |-> children, is_value_node_ |-> FALSE, value_ |-> NoValue]

\* std::make_shared<TrieNodeWithValue<T>>(children, value)
TrieNodeWithValue(children, value) ==
  [children_ |-> children, is_value_node_ |-> TRUE, value_ |-> value]

\* allocation of a node: the new heap and the pointer to the node
Alloc(h, node) == [heap |-> Append(h, node), ptr |-> Len(h) + 1]

\* mutant of Clone: hands back the node itself instead of a copy
CloneAliased(h, p) == [heap |-> h, ptr |-> p]

\* TrieNode::Clone / TrieNodeWithValue::Clone: a copy sharing the children
Clone(h, p) == Alloc(h, h[p])

\* pre->children_[c] = n_head
SetChild(h, p, c, child) ==
  [h EXCEPT ![p].children_ = MapSet(@, c, child)]

\* path.back()->children_.erase(c)
EraseChild(h, p, c) ==
  [h EXCEPT ![p].children_ = MapErase(@, c)]

\* Trie::Get<T>: the walk of lines 29-36; NullPtr when a child is missing
RECURSIVE Walk(_, _, _)
Walk(h, head, key) ==
  IF key = <<>> THEN head
  ELSE IF Head(key) \in DOMAIN h[head].children_
       THEN Walk(h, h[head].children_[Head(key)], Tail(key))
       ELSE NullPtr

\* mutant of Get: ignores the dynamic type of the stored value
GetUntyped(h, root, key, T) ==
  IF root = NullPtr THEN NoValue
  ELSE LET head == Walk(h, root, key)
       IN IF head # NullPtr /\ h[head].is_value_node_ THEN h[head].value_
          ELSE NoValue

\* Trie::Get<T>(key): the stored value, or NoValue for nullptr
Get(h, root, key, T) ==
  IF root = NullPtr THEN NoValue
  ELSE LET head == Walk(h, root, key)
       IN IF head = NullPtr THEN NoValue
          ELSE IF h[head].is_value_node_
               THEN IF h[head].value_.ty = T THEN h[head].value_ ELSE NoValue
               ELSE NoValue

\* mutant of PutTerminal: the value node does not inherit the children
PutTerminalNoChildren(h, n_head, c, value) ==
  Alloc(h, TrieNodeWithValue(EmptyMap, value))

\* Trie::Put, lines 76-79: the value node at the terminal position, which
\* inherits the children of the node it replaces
PutTerminal(h, n_head, c, value) ==
  IF c \in DOMAIN h[n_head].children_
  THEN Alloc(h, TrieNodeWithValue(h[h[n_head].children_[c]].children_, value))
  ELSE Alloc(h, TrieNodeWithValue(EmptyMap, value))

\* Trie::Put, the loop of lines 62-73 from position i (1-based) on, then the
\* terminal node of lines 74-80
RECURSIVE PutWalk(_, _, _, _, _)
PutWalk(h, n_head, key, i, value) ==
  LET c == key[i]
      pre == n_head
      has == c \in DOMAIN h[n_head].children_
  IN IF i < Len(key)
     THEN LET a == IF has THEN Clone(h, h[n_head].children_[c])
                   ELSE Alloc(h, TrieNode(EmptyMap))
          IN PutWalk(SetChild(a.heap, pre, c, a.ptr), a.ptr, key, i + 1, value)
     ELSE LET a == PutTerminal(h, n_head, c, value)
          IN SetChild(a.heap, pre, c, a.ptr)

\* mutant of Put: walks from the root of the old trie instead of a clone
PutInPlace(h, root, key, value) ==
  LET r == IF root = NullPtr THEN Alloc(h, TrieNode(EmptyMap))
           ELSE [heap |-> h, ptr |-> root]
  IN IF key = <<>>
     THEN LET a == Alloc(r.heap,
                         TrieNodeWithValue(r.heap[r.ptr].children_, value))
          IN [heap |-> a.heap, root |-> a.ptr]
     ELSE [heap |-> PutWalk(r.heap, r.ptr, key, 1, value), root |-> r.ptr]

\* Trie::Put<T>(key, value): the new heap and the root of the new trie
Put(h, root, key, value) ==
  LET r == IF root = NullPtr THEN Alloc(h, TrieNode(EmptyMap))
           ELSE Clone(h, root)
  IN IF key = <<>>
     THEN LET a == Alloc(r.heap,
                         TrieNodeWithValue(r.heap[r.ptr].children_, value))
          IN [heap |-> a.heap, root |-> a.ptr]
     ELSE [heap |-> PutWalk(r.heap, r.ptr, key, 1, value), root |-> r.ptr]

\* Trie::Remove, the pruning loop of lines 120-125 (idx is 1-based here, so
\* the source's idx == -1 is idx = 0)
RECURSIVE Prune(_, _, _, _, _)
Prune(h, n_head, key, idx, path) ==
  IF idx >= 1 /\ DOMAIN h[n_head].children_ = {} /\ ~h[n_head].is_value_node_
  THEN LET back == path[Len(path)]
       IN Prune(EraseChild(h, back, key[idx]), back, key, idx - 1,
                SubSeq(path, 1, Len(path) - 1))
  ELSE [heap |-> h, idx |-> idx]

\* Trie::Remove, lines 116-130: the terminal node of the key was reached
RemoveTail(h, n_root, n_head, key, path) ==
  IF h[n_head].is_value_node_
  THEN LET idx == Len(key)
           a == Alloc(h, TrieNode(h[n_head].children_))
           h1 == SetChild(a.heap, path[Len(path)], key[idx], a.ptr)
           p == Prune(h1, a.ptr, key, idx, path)
       IN IF p.idx = 0 THEN [heap |-> p.heap, root |-> NullPtr]
          ELSE [heap |-> p.heap, root |-> n_root]
  ELSE [heap |-> h, root |-> n_root]

\* Trie::Remove, the loop of lines 107-115 from position i (1-based) on
RECURSIVE RemoveWalk(_, _, _, _, _, _)
RemoveWalk(h, n_root, n_head, key, i, path) ==
  IF i > Len(key) THEN RemoveTail(h, n_root, n_head, key, path)
  ELSE LET c == key[i]
           pre == n_head
       IN IF c \notin DOMAIN h[n_head].children_
          THEN [heap |-> h, root |-> n_root]
          ELSE LET a == Clone(h, h[n_head].children_[c])
               IN RemoveWalk(SetChild(a.heap, pre, c, a.ptr), n_root, a.ptr,
                             key, i + 1, Append(path, pre))

\* Trie::Remove(key): the new heap and the root of the new trie
Remove(h, root, key) ==
  IF root = NullPtr THEN [heap |-> h, root |-> NullPtr]
  ELSE LET r == Clone(h, root)
       IN IF key = <<>>
          THEN IF DOMAIN r.heap[r.ptr].children_ = {}
               THEN [heap |-> r.heap, root |-> NullPtr]
               ELSE IF r.heap[r.ptr].is_value_node_
                    THEN LET a == Alloc(r.heap,
                                        TrieNode(r.heap[r.ptr].children_))
                         IN [heap |-> a.heap, root |-> a.ptr]
                    ELSE [heap |-> r.heap, root |-> r.ptr]
          ELSE RemoveWalk(r.heap, r.ptr, r.ptr, key, 1, <<>>)

\* what every key answers in the trie rooted at root, for every type
Lookups(h, root) == [k \in Keys |-> [T \in Types |-> Get(h, root, k, T)]]

\* the nodes reachable from a root
RECURSIVE Reach(_, _)
Reach(h, p) ==
  IF p = NullPtr THEN {}
  ELSE {p} \cup UNION {Reach(h, h[p].children_[c]) : c \in DOMAIN h[p].children_}

\* the observable content of a trie: its answers and its reachable nodes
Snapshot(h, root) ==
  [lookups |-> Lookups(h, root),
   nodes |-> [n \in Reach(h, root) |-> h[n]]]

TrieInit ==
  /\ frozen = <<Snapshot(<<>>, NullPtr)>>
  /\ heap = <<>>
  /\ roots = <<NullPtr>>
  /\ trie_last = [op |-> "none", base |-> 0, key |-> <<>>, value |-> NoValue,
                  before |-> Lookups(<<>>, NullPtr)]

\* a client calls t.Put(key, value) on one of the tries it holds
TriePut ==
  \E b \in 1..Len(roots), key \in Keys, value \in Values :
    /\ Len(roots) <= MaxTrieOps
    /\ LET r == Put(heap, roots[b], key, value)
       IN /\ heap' = r.heap
          /\ roots' = Append(roots, r.root)
          /\ frozen' = Append(frozen, Snapshot(r.heap, r.root))
          /\ trie_last' = [op |-> "put", base |-> b, key |-> key,
                           value |-> value,
                           before |-> Lookups(heap, roots[b])]

\* a client calls t.Remove(key) on one of the tries it holds
TrieRemove ==
  \E b \in 1..Len(roots), key \in Keys :
    /\ Len(roots) <= MaxTrieOps
    /\ LET r == Remove(heap, roots[b], key)
       IN /\ heap' = r.heap
          /\ roots' = Append(roots, r.root)
          /\ frozen' = Append(frozen, Snapshot(r.heap, r.root))
          /\ trie_last' = [op |-> "remove", base |-> b, key |-> key,
                           value |-> NoValue,
                           before |-> Lookups(heap, roots[b])]

TrieNext == TriePut \/ TrieRemove
\* ------------------------------------------------------------------------
\* LRU-K replacer (lru_k_replacer.cpp, src/unnamed/part_000 lines 303-415)
\* ------------------------------------------------------------------------
\* a null Page pointer / no frame
NoFrame == -1

INVALID_PAGE_ID == -1

PushFront(list, f) == <<f>> \o list

\* std::list::erase of the node's iterator
ListErase(list, f) == SelectSeq(list, LAMBDA x : x # f)

\* LRUKReplacer::LRUKReplacer(num_frames, k): nothing tracked; ensure_failed_
\* records that a BUSTUB_ENSURE of the replacer has failed
ReplacerInit(num_frames, k) ==
  [replacer_size_ |-> num_frames, k_ |-> k, node_store_ |-> EmptyMap,
   less_k_list_ |-> <<>>, more_k_list_ |-> <<>>, curr_size_ |-> 0,
   ensure_failed_ |-> FALSE]

\* the reverse scan of Evict: the evictable frame nearest the back of a list
Victim(r, list) ==
  LET idx == {i \in 1..Len(list) : r.node_store_[list[i]].is_evictable_}
  IN IF idx = {} THEN NoFrame
     ELSE list[CHOOSE i \in idx : \A j \in idx : j <= i]

\* mutant of Evict: scans the lists from the front (most recent first)
EvictMostRecent(r) ==
  LET front(list) ==
        LET idx == {i \in 1..Len(list) : r.node_store_[list[i]].is_evictable_}
        IN IF idx = {} THEN NoFrame
           ELSE list[CHOOSE i \in idx : \A j \in idx : i <= j]
      v1 == front(r.less_k_list_)
      v2 == front(r.more_k_list_)
      v == IF v1 # NoFrame THEN v1 ELSE v2
  IN IF v = NoFrame THEN [ok |-> FALSE, frame_id |-> NoFrame, r |-> r]
     ELSE [ok |-> TRUE, frame_id |-> v,
           r |-> [r EXCEPT !.less_k_list_ = ListErase(@, v),
                           !.more_k_list_ = ListErase(@, v),
                           !.node_store_ = MapErase(@, v),
                           !.curr_size_ = @ - 1]]

\* LRUKReplacer::Evict: [ok, frame_id, r]
Evict(r) ==
  LET v1 == Victim(r, r.less_k_list_)
      v2 == Victim(r, r.more_k_list_)
  IN IF v1 # NoFrame
     THEN [ok |-> TRUE, frame_id |-> v1,
           r |-> [r EXCEPT !.less_k_list_ = ListErase(@, v1),
                           !.node_store_ = MapErase(@, v1),
                           !.curr_size_ = @ - 1]]
     ELSE IF v2 # NoFrame
     THEN [ok |-> TRUE, frame_id |-> v2,
           r |-> [r EXCEPT !.more_k_list_ = ListErase(@, v2),
                           !.node_store_ = MapErase(@, v2),
                           !.curr_size_ = @ - 1]]
     ELSE [ok |-> FALSE, frame_id |-> NoFrame, r |-> r]

\* the access counter k_ of a node only ever is compared with k_ of the
\* replacer, so it is kept up to k_ + 1
CountAccess(r, k) == IF k > r.k_ THEN k ELSE k + 1

\* LRUKReplacer::RecordAccess
RecordAccess(r, frame_id) ==
  IF frame_id < 0 \/ frame_id >= r.replacer_size_
  THEN [r EXCEPT !.ensure_failed_ = TRUE]
  ELSE LET fresh == frame_id \notin DOMAIN r.node_store_
           r1 == IF fresh
                 THEN [r EXCEPT
                         !.less_k_list_ = PushFront(@, frame_id),
                         !.node_store_ = MapSet(@, frame_id,
                                           [k_ |-> 0, is_evictable_ |-> FALSE])]
                 ELSE r
           old == r1.node_store_[frame_id].k_
           r2 == [r1 EXCEPT !.node_store_[frame_id].k_ = CountAccess(r, old)]
       IN IF old + 1 = r.k_
          THEN [r2 EXCEPT !.less_k_list_ = ListErase(@, frame_id),
                          !.more_k_list_ = PushFront(@, frame_id)]
          ELSE IF old + 1 > r.k_
          THEN [r2 EXCEPT
                  !.more_k_list_ = PushFront(ListErase(@, frame_id), frame_id)]
          ELSE r2

\* mutant of SetEvictable: the flag changes and curr_size_ does not
SetEvictableNoCount(r, frame_id, set_evictable) ==
  IF frame_id \notin DOMAIN r.node_store_ THEN r
  ELSE [r EXCEPT !.node_store_[frame_id].is_evictable_ = set_evictable]

\* mutant of SetEvictable: counts every call on a tracked frame
SetEvictableAlwaysCounts(r, frame_id, set_evictable) ==
  IF frame_id < 0 \/ frame_id >= r.replacer_size_
  THEN [r EXCEPT !.ensure_failed_ = TRUE]
  ELSE IF frame_id \notin DOMAIN r.node_store_ THEN r
  ELSE [r EXCEPT !.curr_size_ = IF set_evictable THEN @ + 1 ELSE @ - 1,
                 !.node_store_[frame_id].is_evictable_ = set_evictable]

\* LRUKReplacer::SetEvictable
SetEvictable(r, frame_id, set_evictable) ==
  IF frame_id < 0 \/ frame_id >= r.replacer_size_
  THEN [r EXCEPT !.ensure_failed_ = TRUE]
  ELSE IF frame_id \notin DOMAIN r.node_store_
          \/ r.node_store_[frame_id].is_evictable_ = set_evictable
  THEN r
  ELSE [r EXCEPT !.curr_size_ = IF set_evictable THEN @ + 1 ELSE @ - 1,
                 !.node_store_[frame_id].is_evictable_ = set_evictable]

\* LRUKReplacer::Remove
ReplacerRemove(r, frame_id) ==
  IF frame_id < 0 \/ frame_id >= r.replacer_size_
  THEN [r EXCEPT !.ensure_failed_ = TRUE]
  ELSE IF frame_id \notin DOMAIN r.node_store_ THEN r
  ELSE IF ~r.node_store_[frame_id].is_evictable_
  THEN [r EXCEPT !.ensure_failed_ = TRUE]
  ELSE [r EXCEPT !.less_k_list_ = IF r.node_store_[frame_id].k_ < r.k_
                                  THEN ListErase(@, frame_id) ELSE @,
                 !.more_k_list_ = IF r.node_store_[frame_id].k_ < r.k_
                                  THEN @ ELSE ListErase(@, frame_id),
                 !.curr_size_ = @ - 1,
                 !.node_store_ = MapErase(@, frame_id)]

\* LRUKReplacer::Size
ReplacerSize(r) == r.curr_size_

\* ------------------------------------------------------------------------
\* Buffer pool manager (buffer_pool_manager.cpp, src/unnamed/part_001)
\* ------------------------------------------------------------------------
PageIds == 0..(MaxPages - 1)

\* the page ids the disk holds bytes for
DiskPageIds == 0..((IF HTMaxPages > MaxPages THEN HTMaxPages ELSE MaxPages) - 1)

\* Page::ResetMemory: a page of zero bytes
ZeroPage == [bytes |-> 0]

\* a Page as constructed: no page, not pinned, clean
FreshPage ==
  [page_id_ |-> INVALID_PAGE_ID, pin_count_ |-> 0, is_dirty_ |-> FALSE,
   data_ |-> ZeroPage]

\* BufferPoolManager::BufferPoolManager(pool_size, ...) over an empty disk
BpmInit(pool_size) ==
  [pool_size_ |-> pool_size,
   pages_ |-> [f \in 0..(pool_size - 1) |-> FreshPage],
   page_table_ |-> EmptyMap,
   free_list_ |-> [i \in 1..pool_size |-> i - 1],
   replacer_ |-> ReplacerInit(pool_size, K),
   next_page_id_ |-> 0,
   disk_ |-> [p \in DiskPageIds |-> ZeroPage]]

\* no page left a frame in the call
NoVictim == [page_id_ |-> INVALID_PAGE_ID, pin_count_ |-> 0,
             is_dirty_ |-> FALSE, data_ |-> ZeroPage]

\* disk_scheduler_->Schedule({true, data, page_id, promise}); future.get()
DiskWrite(b, page_id, data) == [b EXCEPT !.disk_[page_id] = data]

\* disk_scheduler_->Schedule({false, data, page_id, promise}); future.get():
\* the bytes the disk holds for the page
DiskRead(b, page_id) == b.disk_[page_id]

\* mutant of WriteBack: the victim is dropped without being written
WriteBackNever(b, frame_id) == b

\* lines 51-57 and 97-103: a dirty victim is written before its frame is reset
WriteBack(b, frame_id) ==
  IF b.pages_[frame_id].is_dirty_
  THEN DiskWrite(b, b.pages_[frame_id].page_id_, b.pages_[frame_id].data_)
  ELSE b

\* mutant of NewPage: gives up as soon as the free list is empty
NewPageNoEvict(b) ==
  IF b.free_list_ = <<>>
  THEN [bpm |-> b, page |-> NoFrame, page_id |-> INVALID_PAGE_ID,
        victim |-> NoVictim]
  ELSE LET f == Head(b.free_list_)
           id == b.next_page_id_
       IN [bpm |-> [b EXCEPT
                      !.free_list_ = Tail(@),
                      !.next_page_id_ = @ + 1,
                      !.pages_[f].data_ = ZeroPage,
                      !.pages_[f].page_id_ = id,
                      !.pages_[f].pin_count_ = 1,
                      !.page_table_ = MapSet(@, id, f),
                      !.replacer_ = SetEvictable(RecordAccess(@, f), f, FALSE)],
           page |-> f, page_id |-> id, victim |-> NoVictim]

\* BufferPoolManager::NewPage: [bpm, page, page_id, victim]; page is the
\* frame returned (NoFrame for nullptr), victim the page that left the frame
NewPage(b) ==
  IF b.free_list_ = <<>>
  THEN LET e == Evict(b.replacer_)
       IN IF e.ok
          THEN LET f == e.frame_id
                   old == b.pages_[f]
                   b1 == [b EXCEPT !.replacer_ = e.r,
                                   !.page_table_ = MapErase(@, old.page_id_)]
                   b2 == WriteBack(b1, f)
                   id == b2.next_page_id_
               IN [bpm |-> [b2 EXCEPT
                              !.next_page_id_ = @ + 1,
                              !.pages_[f] = [page_id_ |-> id,
                                             pin_count_ |-> 1,
                                             is_dirty_ |-> FALSE,
                                             data_ |-> ZeroPage],
                              !.page_table_ = MapSet(@, id, f),
                              !.replacer_ =
                                 SetEvictable(RecordAccess(@, f), f, FALSE)],
                   page |-> f, page_id |-> id, victim |-> old]
          ELSE [bpm |-> b, page |-> NoFrame, page_id |-> INVALID_PAGE_ID,
                victim |-> NoVictim]
  ELSE LET f == Head(b.free_list_)
           id == b.next_page_id_
       IN [bpm |-> [b EXCEPT
                      !.free_list_ = Tail(@),
                      !.next_page_id_ = @ + 1,
                      !.pages_[f].data_ = ZeroPage,
                      !.pages_[f].page_id_ = id,
                      !.pages_[f].pin_count_ = 1,
                      !.page_table_ = MapSet(@, id, f),
                      !.replacer_ = SetEvictable(RecordAccess(@, f), f, FALSE)],
           page |-> f, page_id |-> id, victim |-> NoVictim]

\* BufferPoolManager::FetchPage: [bpm, page, victim]
FetchPage(b, page_id) ==
  IF page_id \in DOMAIN b.page_table_
  THEN LET f == b.page_table_[page_id]
       IN [bpm |-> [b EXCEPT
                      !.pages_[f].pin_count_ = @ + 1,
                      !.replacer_ = SetEvictable(RecordAccess(@, f), f, FALSE)],
           page |-> f, victim |-> NoVictim]
  ELSE IF b.free_list_ = <<>>
  THEN LET e == Evict(b.replacer_)
       IN IF e.ok
          THEN LET f == e.frame_id
                   old == b.pages_[f]
                   b1 == [b EXCEPT !.replacer_ = e.r,
                                   !.page_table_ = MapErase(@, old.page_id_)]
                   b2 == WriteBack(b1, f)
               IN [bpm |-> [b2 EXCEPT
                              !.pages_[f] = [page_id_ |-> page_id,
                                             pin_count_ |-> 1,
                                             is_dirty_ |-> FALSE,
                                             data_ |-> DiskRead(b2, page_id)],
                              !.page_table_ = MapSet(@, page_id, f),
                              !.replacer_ =
                                 SetEvictable(RecordAccess(@, f), f, FALSE)],
                   page |-> f, victim |-> old]
          ELSE [bpm |-> b, page |-> NoFrame, victim |-> NoVictim]
  ELSE LET f == Head(b.free_list_)
       IN [bpm |-> [b EXCEPT
                      !.free_list_ = Tail(@),
                      !.pages_[f] = [page_id_ |-> page_id,
                                     pin_count_ |-> 1,
                                     is_dirty_ |-> FALSE,
                                     data_ |-> DiskRead(b, page_id)],
                      !.page_table_ = MapSet(@, page_id, f),
                      !.replacer_ = SetEvictable(RecordAccess(@, f), f, FALSE)],
           page |-> f, victim |-> NoVictim]

\* mutant of UnpinPage: the frame is not handed to the replacer when its
\* last pin goes
UnpinPageStaysPinned(b, page_id, is_dirty) ==
  IF page_id \in DOMAIN b.page_table_
  THEN IF b.pages_[b.page_table_[page_id]].pin_count_ = 0
       THEN [bpm |-> b, ret |-> FALSE]
       ELSE [bpm |-> [b EXCEPT
                        !.pages_[b.page_table_[page_id]].pin_count_ = @ - 1,
                        !.pages_[b.page_table_[page_id]].is_dirty_ =
                           @ \/ is_dirty],
             ret |-> TRUE]
  ELSE [bpm |-> b, ret |-> FALSE]

\* mutant of UnpinPage: the dirty flag is assigned, not or-ed
UnpinPageAssignsDirty(b, page_id, is_dirty) ==
  IF page_id \in DOMAIN b.page_table_
  THEN IF b.pages_[b.page_table_[page_id]].pin_count_ = 0
       THEN [bpm |-> b, ret |-> FALSE]
       ELSE [bpm |-> [b EXCEPT
                        !.pages_[b.page_table_[page_id]].pin_count_ = @ - 1,
                        !.pages_[b.page_table_[page_id]].is_dirty_ = is_dirty,
                        !.replacer_ =
                           IF b.pages_[b.page_table_[page_id]].pin_count_ = 1
                           THEN SetEvictable(@, b.page_table_[page_id], TRUE)
                           ELSE @],
             ret |-> TRUE]
  ELSE [bpm |-> b, ret |-> FALSE]

\* BufferPoolManager::UnpinPage: [bpm, ret]
UnpinPage(b, page_id, is_dirty) ==
  IF page_id \in DOMAIN b.page_table_
  THEN LET f == b.page_table_[page_id]
       IN IF b.pages_[f].pin_count_ = 0 THEN [bpm |-> b, ret |-> FALSE]
          ELSE [bpm |-> [b EXCEPT
                           !.pages_[f].pin_count_ = @ - 1,
                           !.pages_[f].is_dirty_ = @ \/ is_dirty,
                           !.replacer_ =
                              IF b.pages_[f].pin_count_ = 1
                              THEN SetEvictable(@, f, TRUE) ELSE @],
                ret |-> TRUE]
  ELSE [bpm |-> b, ret |-> FALSE]

\* mutant of FlushPage: a pinned page is not written
FlushPageSkipsPinned(b, page_id) ==
  IF page_id \in DOMAIN b.page_table_
       /\ b.pages_[b.page_table_[page_id]].pin_count_ = 0
  THEN [bpm |-> [DiskWrite(b, page_id, b.pages_[b.page_table_[page_id]].data_)
                   EXCEPT !.pages_[b.page_table_[page_id]].is_dirty_ = FALSE],
        ret |-> TRUE]
  ELSE [bpm |-> b, ret |-> FALSE]

\* BufferPoolManager::FlushPage: [bpm, ret]
FlushPage(b, page_id) ==
  IF page_id \in DOMAIN b.page_table_
  THEN LET f == b.page_table_[page_id]
       IN [bpm |-> [DiskWrite(b, page_id, b.pages_[f].data_)
                      EXCEPT !.pages_[f].is_dirty_ = FALSE],
           ret |-> TRUE]
  ELSE [bpm |-> b, ret |-> FALSE]

\* BufferPoolManager::FlushAllPages
FlushAllPages(b) ==
  [b EXCEPT
     !.disk_ = [p \in DiskPageIds |->
                  IF p \in DOMAIN b.page_table_
                  THEN b.pages_[b.page_table_[p]].data_ ELSE @[p]],
     !.pages_ = [f \in DOMAIN b.pages_ |->
                   IF \E p \in DOMAIN b.page_table_ : b.page_table_[p] = f
                   THEN [@[f] EXCEPT !.is_dirty_ = FALSE] ELSE @[f]]]

\* mutant of DeletePage: the entry of the page stays in the page table
DeletePageKeepsEntry(b, page_id) ==
  IF page_id \in DOMAIN b.page_table_
  THEN IF b.pages_[b.page_table_[page_id]].pin_count_ > 0
       THEN [bpm |-> b, ret |-> FALSE]
       ELSE [bpm |-> [b EXCEPT
                        !.replacer_ = ReplacerRemove(@, b.page_table_[page_id]),
                        !.free_list_ = Append(@, b.page_table_[page_id]),
                        !.pages_[b.page_table_[page_id]] = FreshPage],
             ret |-> TRUE]
  ELSE [bpm |-> b, ret |-> TRUE]

\* mutant of DeletePage: a pinned page is deleted as well
DeletePageWhilePinned(b, page_id) ==
  IF page_id \in DOMAIN b.page_table_
  THEN [bpm |-> [b EXCEPT
                   !.replacer_ =
                      SetEvictable(@, b.page_table_[page_id], FALSE),
                   !.free_list_ = Append(@, b.page_table_[page_id]),
                   !.pages_[b.page_table_[page_id]] =
                      [FreshPage EXCEPT !.data_ =
                         b.pages_[b.page_table_[page_id]].data_],
                   !.page_table_ = MapErase(@, page_id)],
        ret |-> TRUE]
  ELSE [bpm |-> b, ret |-> TRUE]

\* mutant of DeletePage: the pin count is not looked at
DeletePageNoPinCheck(b, page_id) ==
  IF page_id \in DOMAIN b.page_table_
  THEN [bpm |-> [b EXCEPT
                   !.replacer_ = ReplacerRemove(@, b.page_table_[page_id]),
                   !.free_list_ = Append(@, b.page_table_[page_id]),
                   !.pages_[b.page_table_[page_id]] = FreshPage,
                   !.page_table_ = MapErase(@, page_id)],
        ret |-> TRUE]
  ELSE [bpm |-> b, ret |-> TRUE]

\* BufferPoolManager::DeletePage: [bpm, ret]
DeletePage(b, page_id) ==
  IF page_id \in DOMAIN b.page_table_
  THEN LET f == b.page_table_[page_id]
       IN IF b.pages_[f].pin_count_ > 0 THEN [bpm |-> b, ret |-> FALSE]
          ELSE [bpm |-> [b EXCEPT
                           !.replacer_ = ReplacerRemove(@, f),
                           !.free_list_ = Append(@, f),
                           !.pages_[f] = FreshPage,
                           !.page_table_ = MapErase(@, page_id)],
                ret |-> TRUE]
  ELSE [bpm |-> b, ret |-> TRUE]

\* ------------------------------------------------------------------------
\* A client of the buffer pool manager (the calls of the tests of
\* buffer_pool_manager_test.cpp, src/unnamed/part_000 lines 26-155)
\* ------------------------------------------------------------------------
Resident(b, page_id) == page_id \in DOMAIN b.page_table_

FrameOf(b, page_id) == b.page_table_[page_id]

Frames == DOMAIN bpm.pages_

\* the page id of the dirty victim that a NewPage / FetchPage call wrote to
\* disk, INVALID_PAGE_ID when the call wrote none
WrittenBack(r) ==
  IF r.victim.is_dirty_ THEN r.victim.page_id_ ELSE INVALID_PAGE_ID

NoCall == [op |-> "none", page_id |-> INVALID_PAGE_ID, page |-> NoFrame,
           victim |-> INVALID_PAGE_ID]

PoolInit(pool_size) ==
  /\ bpm = BpmInit(pool_size)
  /\ latch = [f \in 0..(pool_size - 1) |-> [readers |-> 0, writer |-> FALSE]]
  /\ raw_pins = [p \in PageIds |-> 0]
  /\ raw_writers = [p \in PageIds |-> 0]
  /\ last_written = [p \in PageIds |-> ZeroPage]
  /\ discarded = [p \in PageIds |-> FALSE]
  /\ bpm_last = NoCall

\* bpm->NewPage(&page_id_temp)
CallNewPage ==
  /\ ~aborted
  /\ bpm.next_page_id_ < MaxPages
  /\ LET r == NewPage(bpm)
     IN /\ bpm' = r.bpm
        /\ raw_pins' = IF r.page # NoFrame
                       THEN [raw_pins EXCEPT ![r.page_id] = @ + 1]
                       ELSE raw_pins
        /\ bpm_last' = [op |-> "NewPage", page_id |-> r.page_id,
                        page |-> r.page, victim |-> WrittenBack(r)]
  /\ UNCHANGED <<latch, raw_writers, last_written, discarded>>

\* bpm->FetchPage(page_id) of a page id that AllocatePage has handed out
CallFetchPage ==
  \E page_id \in PageIds :
    /\ ~aborted
    /\ page_id < bpm.next_page_id_
    /\ Resident(bpm, page_id) =>
         bpm.pages_[FrameOf(bpm, page_id)].pin_count_ < MaxPin
    /\ LET r == FetchPage(bpm, page_id)
       IN /\ bpm' = r.bpm
          /\ raw_pins' = IF r.page # NoFrame
                         THEN [raw_pins EXCEPT ![page_id] = @ + 1]
                         ELSE raw_pins
          /\ bpm_last' = [op |-> "FetchPage", page_id |-> page_id,
                          page |-> r.page, victim |-> WrittenBack(r)]
    /\ UNCHANGED <<latch, raw_writers, last_written, discarded>>

\* the client changes the bytes of a page it has pinned (memcpy / snprintf
\* into page->GetData()); the pin it writes through will be released with
\* is_dirty = true. The n-th write of the client writes the byte pattern n.
LastPattern ==
  CHOOSE n \in 0..MaxData :
    /\ \A p \in PageIds : last_written[p].bytes <= n
    /\ \E p \in PageIds : last_written[p].bytes = n

CallWriteData ==
  \E page_id \in PageIds, first \in BOOLEAN :
    /\ ~aborted
    /\ Resident(bpm, page_id)
    /\ LastPattern < MaxData
    /\ raw_pins[page_id] > 0
    /\ IF first THEN raw_writers[page_id] < raw_pins[page_id]
       ELSE raw_writers[page_id] > 0
    /\ bpm' = [bpm EXCEPT !.pages_[FrameOf(bpm, page_id)].data_ =
                             [bytes |-> LastPattern + 1]]
    /\ raw_writers' = IF first THEN [raw_writers EXCEPT ![page_id] = @ + 1]
                      ELSE raw_writers
    /\ last_written' = [last_written EXCEPT ![page_id].bytes = LastPattern + 1]
    /\ discarded' = [discarded EXCEPT ![page_id] = FALSE]
    /\ bpm_last' = NoCall /\ UNCHANGED <<latch, raw_pins>>

\* bpm->UnpinPage(page_id, is_dirty): the release of one of the client's
\* pins (with is_dirty = true when that pin wrote), or a call that fails
CallUnpinPage ==
  \E page_id \in PageIds, is_dirty \in BOOLEAN, writer \in BOOLEAN :
    /\ ~aborted
    /\ page_id < bpm.next_page_id_
    /\ IF raw_pins[page_id] = 0
       THEN /\ ~writer
            /\ Resident(bpm, page_id) =>
                 bpm.pages_[FrameOf(bpm, page_id)].pin_count_ = 0
       ELSE IF writer THEN raw_writers[page_id] > 0 /\ is_dirty
            ELSE raw_pins[page_id] > raw_writers[page_id]
    /\ LET r == UnpinPage(bpm, page_id, is_dirty)
       IN /\ bpm' = r.bpm
          /\ raw_pins' = IF r.ret THEN [raw_pins EXCEPT ![page_id] = @ - 1]
                         ELSE raw_pins
          /\ raw_writers' = IF r.ret /\ writer
                            THEN [raw_writers EXCEPT ![page_id] = @ - 1]
                            ELSE raw_writers
          /\ bpm_last' = NoCall
    /\ UNCHANGED <<latch, last_written, discarded>>

\* bpm->FlushPage(page_id)
CallFlushPage ==
  \E page_id \in PageIds :
    /\ ~aborted
    /\ page_id < bpm.next_page_id_
    /\ LET r == FlushPage(bpm, page_id)
       IN /\ bpm' = r.bpm
          /\ bpm_last' = NoCall
    /\ UNCHANGED <<latch, raw_pins, raw_writers, last_written, discarded>>

\* bpm->FlushAllPages()
CallFlushAllPages ==
  /\ ~aborted
  /\ bpm' = FlushAllPages(bpm)
  /\ bpm_last' = NoCall
  /\ UNCHANGED <<latch, raw_pins, raw_writers, last_written, discarded>>

\* bpm->DeletePage(page_id)
CallDeletePage ==
  \E page_id \in PageIds :
    /\ ~aborted
    /\ page_id < bpm.next_page_id_
    /\ LET r == DeletePage(bpm, page_id)
           gone == /\ r.ret
                   /\ Resident(bpm, page_id)
                   /\ bpm.pages_[FrameOf(bpm, page_id)].is_dirty_
       IN /\ bpm' = r.bpm
          /\ discarded' = IF gone THEN [discarded EXCEPT ![page_id] = TRUE]
                          ELSE discarded
          /\ bpm_last' = NoCall
    /\ UNCHANGED <<latch, raw_pins, raw_writers, last_written>>

\* ------------------------------------------------------------------------
\* Page guards (src/storage/page/page_guard.cpp) and the guard-returning
\* calls of the buffer pool manager (src/unnamed/part_001 lines 199-213)
\* ------------------------------------------------------------------------
\* a guard is [kind, bpm_, page_, is_dirty_]: bpm_ tells whether the pointer
\* to the buffer pool manager is set, page_ is the frame pointed to
EmptyGuard(kind) ==
  [kind |-> kind, bpm_ |-> FALSE, page_ |-> NoFrame, is_dirty_ |-> FALSE]

\* a slot of the caller that holds no guard object
NoGuard == EmptyGuard("none")

\* BasicPageGuard(bpm, page) and the Read / Write guards built on it
MakeGuard(kind, page) ==
  [kind |-> kind, bpm_ |-> TRUE, page_ |-> page, is_dirty_ |-> FALSE]

\* Page::RLatch / RUnlatch / WLatch / WUnlatch on the frame's rwlatch_
CanRLatch(l, f) == ~l[f].writer

CanWLatch(l, f) == ~l[f].writer /\ l[f].readers = 0

RLatch(l, f) == [l EXCEPT ![f].readers = @ + 1]

RUnlatch(l, f) == [l EXCEPT ![f].readers = @ - 1]

WLatch(l, f) == [l EXCEPT ![f].writer = TRUE]

WUnlatch(l, f) == [l EXCEPT ![f].writer = FALSE]

\* BasicPageGuard::PageId: page_->GetPageId()
PageId(b, g) == b.pages_[g.page_].page_id_

\* the result of a guard operation: the buffer pool manager, the latches,
\* the guard the operation leaves or returns, and whether the process died
\* reading through a null Page pointer
GuardResult(b, l, g, dead) ==
  [bpm |-> b, latch |-> l, guard |-> g, aborted |-> dead]

\* mutant of BasicDrop: forgets the guard without unpinning
BasicDropNoUnpin(b, l, g) == GuardResult(b, l, EmptyGuard(g.kind), FALSE)

\* BasicPageGuard::Drop: PageId() reads through page_, which is null in a
\* guard built on a null frame
BasicDrop(b, l, g) ==
  IF g.bpm_
  THEN IF g.page_ = NoFrame THEN GuardResult(b, l, g, TRUE)
       ELSE GuardResult(UnpinPage(b, PageId(b, g), g.is_dirty_).bpm, l,
                        EmptyGuard(g.kind), FALSE)
  ELSE GuardResult(b, l, EmptyGuard(g.kind), FALSE)

\* mutant of ReadDrop: unlatches but keeps the pin
ReadDropNoUnpin(b, l, g) ==
  IF g.page_ # NoFrame
  THEN GuardResult(b, RUnlatch(l, g.page_), EmptyGuard(g.kind), FALSE)
  ELSE GuardResult(b, l, EmptyGuard(g.kind), FALSE)

\* ReadPageGuard::Drop
ReadDrop(b, l, g) ==
  IF g.page_ # NoFrame
  THEN GuardResult(UnpinPage(b, PageId(b, g), g.is_dirty_).bpm,
                   RUnlatch(l, g.page_), EmptyGuard(g.kind), FALSE)
  ELSE GuardResult(b, l, EmptyGuard(g.kind), FALSE)

\* WritePageGuard::Drop
WriteDrop(b, l, g) ==
  IF g.page_ # NoFrame
  THEN GuardResult(UnpinPage(b, PageId(b, g), g.is_dirty_).bpm,
                   WUnlatch(l, g.page_), EmptyGuard(g.kind), FALSE)
  ELSE GuardResult(b, l, EmptyGuard(g.kind), FALSE)

\* mutant of Drop: the guard keeps its pointers after the release
DropKeepsPointers(b, l, g) ==
  IF g.kind = "read" THEN [ReadDrop(b, l, g) EXCEPT !.guard = g]
  ELSE IF g.kind = "write" THEN [WriteDrop(b, l, g) EXCEPT !.guard = g]
  ELSE [BasicDrop(b, l, g) EXCEPT !.guard = g]

\* mutant of Drop: the guard is emptied without releasing its page
DropNoRelease(b, l, g) == GuardResult(b, l, EmptyGuard(g.kind), FALSE)

\* guard.Drop() of a guard of any kind
Drop(b, l, g) ==
  IF g.kind = "read" THEN ReadDrop(b, l, g)
  ELSE IF g.kind = "write" THEN WriteDrop(b, l, g)
  ELSE BasicDrop(b, l, g)

\* BufferPoolManager::FetchPageBasic
FetchPageBasic(b, l, page_id) ==
  LET r == FetchPage(b, page_id)
  IN GuardResult(r.bpm, l, MakeGuard("basic", r.page), FALSE)

\* BufferPoolManager::NewPageGuarded
NewPageGuarded(b, l) ==
  LET r == NewPage(b)
  IN GuardResult(r.bpm, l, MakeGuard("basic", r.page), FALSE)

\* BufferPoolManager::FetchPageRead: pg_ptr->RLatch() without a null check
FetchPageRead(b, l, page_id) ==
  LET r == FetchPage(b, page_id)
  IN IF r.page = NoFrame THEN GuardResult(r.bpm, l, NoGuard, TRUE)
     ELSE GuardResult(r.bpm, RLatch(l, r.page), MakeGuard("read", r.page),
                      FALSE)

\* BufferPoolManager::FetchPageWrite: pg_ptr->WLatch() without a null check
FetchPageWrite(b, l, page_id) ==
  LET r == FetchPage(b, page_id)
  IN IF r.page = NoFrame THEN GuardResult(r.bpm, l, NoGuard, TRUE)
     ELSE GuardResult(r.bpm, WLatch(l, r.page), MakeGuard("write", r.page),
                      FALSE)

\* BasicPageGuard::UpgradeRead: the returned guard; the basic guard is left
\* empty. page_->RLatch() reads through page_
UpgradeRead(b, l, g) ==
  IF g.page_ = NoFrame THEN GuardResult(b, l, NoGuard, TRUE)
  ELSE GuardResult(b, RLatch(l, g.page_),
                   [MakeGuard("read", g.page_) EXCEPT !.bpm_ = g.bpm_], FALSE)

\* BasicPageGuard::UpgradeWrite
UpgradeWrite(b, l, g) ==
  IF g.page_ = NoFrame THEN GuardResult(b, l, NoGuard, TRUE)
  ELSE GuardResult(b, WLatch(l, g.page_),
                   [MakeGuard("write", g.page_) EXCEPT !.bpm_ = g.bpm_], FALSE)

\* BasicPageGuard::AsMut / GetDataMut (page_guard.h): the guard hands out a
\* mutable view of the page and remembers that the page is dirty
AsMut(g) == [g EXCEPT !.is_dirty_ = TRUE]

\* the fields a move takes from `that`
MovedFrom(kind, that) ==
  [kind |-> kind, bpm_ |-> that.bpm_, page_ |-> that.page_,
   is_dirty_ |-> that.is_dirty_]

\* ------------------------------------------------------------------------
\* A client that holds guards (the calls of PageGuardTest, src/unnamed/
\* part_000 lines 158-299) next to raw pins
\* ------------------------------------------------------------------------
GuardIds == 1..MaxGuards

\* the guards that hold the page in frame f
Holders(f) == {g \in GuardIds : guards[g].kind # "none" /\ guards[g].page_ = f}

\* the caller goes on with the result r of a guard operation, storing the
\* guard it leaves or returns in slot g; a dead process takes no more steps
Finish(g, r) ==
  IF r.aborted
  THEN aborted' = TRUE /\ UNCHANGED <<bpm, latch, guards>>
  ELSE /\ bpm' = r.bpm
       /\ latch' = r.latch
       /\ guards' = [guards EXCEPT ![g] = r.guard]
       /\ UNCHANGED aborted

\* FetchPage(page_id) would not raise a pin count above MaxPin
PinRoom(page_id) ==
  Resident(bpm, page_id) =>
    bpm.pages_[FrameOf(bpm, page_id)].pin_count_ < MaxPin

\* auto guard = bpm->FetchPageBasic(page_id)
GFetchPageBasic ==
  \E g \in GuardIds, page_id \in PageIds :
    /\ ~aborted
    /\ guards[g].kind = "none"
    /\ page_id < bpm.next_page_id_
    /\ PinRoom(page_id)
    /\ Finish(g, FetchPageBasic(bpm, latch, page_id))
    /\ bpm_last' = NoCall
    /\ UNCHANGED <<raw_pins, raw_writers, last_written, discarded>>

\* auto guard = bpm->NewPageGuarded(&page_id)
GNewPageGuarded ==
  \E g \in GuardIds :
    /\ ~aborted
    /\ guards[g].kind = "none"
    /\ bpm.next_page_id_ < MaxPages
    /\ Finish(g, NewPageGuarded(bpm, latch))
    /\ bpm_last' = NoCall
    /\ UNCHANGED <<raw_pins, raw_writers, last_written, discarded>>

\* auto guard = bpm->FetchPageRead(page_id); the caller is single-threaded
\* and does not ask for a latch that it would wait for forever
GFetchPageRead ==
  \E g \in GuardIds, page_id \in PageIds :
    /\ ~aborted
    /\ guards[g].kind = "none"
    /\ page_id < bpm.next_page_id_
    /\ PinRoom(page_id)
    /\ LET f == FetchPage(bpm, page_id).page
       IN f # NoFrame => CanRLatch(latch, f)
    /\ Finish(g, FetchPageRead(bpm, latch, page_id))
    /\ bpm_last' = NoCall
    /\ UNCHANGED <<raw_pins, raw_writers, last_written, discarded>>

\* auto guard = bpm->FetchPageWrite(page_id)
GFetchPageWrite ==
  \E g \in GuardIds, page_id \in PageIds :
    /\ ~aborted
    /\ guards[g].kind = "none"
    /\ page_id < bpm.next_page_id_
    /\ PinRoom(page_id)
    /\ LET f == FetchPage(bpm, page_id).page
       IN f # NoFrame => CanWLatch(latch, f)
    /\ Finish(g, FetchPageWrite(bpm, latch, page_id))
    /\ bpm_last' = NoCall
    /\ UNCHANGED <<raw_pins, raw_writers, last_written, discarded>>

\* auto guarded_page = BasicPageGuard(bpm.get(), page0): the guard takes
\* over a pin that the caller got from NewPage / FetchPage
GAdopt ==
  \E g \in GuardIds, page_id \in PageIds :
    /\ ~aborted
    /\ guards[g].kind = "none"
    /\ Resident(bpm, page_id)
    /\ raw_pins[page_id] > raw_writers[page_id]
    /\ guards' = [guards EXCEPT ![g] = MakeGuard("basic", FrameOf(bpm, page_id))]
    /\ raw_pins' = [raw_pins EXCEPT ![page_id] = @ - 1]
    /\ bpm_last' = NoCall
    /\ UNCHANGED <<bpm, latch, aborted, raw_writers, last_written, discarded>>

\* guard.Drop()
GDrop ==
  \E g \in GuardIds :
    /\ ~aborted
    /\ guards[g].kind # "none"
    /\ Finish(g, Drop(bpm, latch, guards[g]))
    /\ bpm_last' = NoCall
    /\ UNCHANGED <<raw_pins, raw_writers, last_written, discarded>>

\* the guard goes out of scope: the destructor calls Drop()
GDestroy ==
  \E g \in GuardIds :
    /\ ~aborted
    /\ guards[g].kind # "none"
    /\ Finish(g, [Drop(bpm, latch, guards[g]) EXCEPT !.guard = NoGuard])
    /\ bpm_last' = NoCall
    /\ UNCHANGED <<raw_pins, raw_writers, last_written, discarded>>

\* auto guard_2 = Guard(std::move(guard)): the move constructors of lines
\* 6-13, 55 and 76 (the new guard's empty guard_ is dropped, then assigned)
GMoveConstruct ==
  \E that \in GuardIds, g \in GuardIds :
    /\ ~aborted
    /\ guards[that].kind # "none"
    /\ guards[g].kind = "none"
    /\ guards' = [guards EXCEPT
                    ![g] = MovedFrom(guards[that].kind, guards[that]),
                    ![that] = EmptyGuard(guards[that].kind)]
    /\ bpm_last' = NoCall
    /\ UNCHANGED <<bpm, latch, aborted, raw_pins, raw_writers, last_written,
                   discarded>>

\* guard = std::move(that), operator= of lines 24-33, 57-61 and 78-82:
\* Drop(), then the fields of `that` (the guard itself in a self-move)
GMoveAssign ==
  \E that \in GuardIds, g \in GuardIds :
    /\ ~aborted
    /\ guards[g].kind # "none"
    /\ guards[that].kind = guards[g].kind
    /\ LET r == Drop(bpm, latch, guards[g])
           src == IF that = g THEN r.guard ELSE guards[that]
       IN IF r.aborted
          THEN aborted' = TRUE /\ UNCHANGED <<bpm, latch, guards>>
          ELSE /\ bpm' = r.bpm
               /\ latch' = r.latch
               /\ guards' = [[guards EXCEPT ![that] = EmptyGuard(src.kind)]
                               EXCEPT ![g] = MovedFrom(src.kind, src)]
               /\ UNCHANGED aborted
    /\ bpm_last' = IF that # g /\ guards[g].page_ # NoFrame
                       /\ guards[that].page_ # NoFrame
                    THEN [NoCall EXCEPT !.op = "MoveAssign",
                                        !.page_id = PageId(bpm, guards[g])]
                    ELSE NoCall
    /\ UNCHANGED <<raw_pins, raw_writers, last_written, discarded>>

\* auto read_guard = guard.UpgradeRead()
GUpgradeRead ==
  \E that \in GuardIds, g \in GuardIds :
    /\ ~aborted
    /\ guards[that].kind = "basic"
    /\ guards[g].kind = "none"
    /\ guards[that].page_ # NoFrame => CanRLatch(latch, guards[that].page_)
    /\ LET r == UpgradeRead(bpm, latch, guards[that])
       IN IF r.aborted
          THEN aborted' = TRUE /\ UNCHANGED <<bpm, latch, guards>>
          ELSE /\ bpm' = r.bpm
               /\ latch' = r.latch
               /\ guards' = [guards EXCEPT ![g] = r.guard,
                                           ![that] = EmptyGuard("basic")]
               /\ UNCHANGED aborted
    /\ bpm_last' = NoCall
    /\ UNCHANGED <<raw_pins, raw_writers, last_written, discarded>>

\* auto write_guard = guard.UpgradeWrite()
GUpgradeWrite ==
  \E that \in GuardIds, g \in GuardIds :
    /\ ~aborted
    /\ guards[that].kind = "basic"
    /\ guards[g].kind = "none"
    /\ guards[that].page_ # NoFrame => CanWLatch(latch, guards[that].page_)
    /\ LET r == UpgradeWrite(bpm, latch, guards[that])
       IN IF r.aborted
          THEN aborted' = TRUE /\ UNCHANGED <<bpm, latch, guards>>
          ELSE /\ bpm' = r.bpm
               /\ latch' = r.latch
               /\ guards' = [guards EXCEPT ![g] = r.guard,
                                           ![that] = EmptyGuard("basic")]
               /\ UNCHANGED aborted
    /\ bpm_last' = NoCall
    /\ UNCHANGED <<raw_pins, raw_writers, last_written, discarded>>

\* guard.AsMut<T>() on a basic or write guard that holds a page
GAsMut ==
  \E g \in GuardIds :
    /\ ~aborted
    /\ guards[g].kind \in {"basic", "write"}
    /\ guards[g].page_ # NoFrame
    /\ ~guards[g].is_dirty_
    /\ guards' = [guards EXCEPT ![g] = AsMut(guards[g])]
    /\ bpm_last' = NoCall
    /\ UNCHANGED <<bpm, latch, aborted, raw_pins, raw_writers, last_written,
                   discarded>>

GuardInit ==
  /\ guards = [g \in GuardIds |-> NoGuard]
  /\ aborted = FALSE

\* ------------------------------------------------------------------------
\* Bit operations on uint32_t values
\* ------------------------------------------------------------------------
RECURSIVE BitAnd(_, _)
BitAnd(x, y) ==
  IF x = 0 \/ y = 0 THEN 0
  ELSE (x % 2) * (y % 2) + 2 * BitAnd(x \div 2, y \div 2)

RECURSIVE BitOr(_, _)
BitOr(x, y) ==
  IF x = 0 THEN y
  ELSE IF y = 0 THEN x
  ELSE (IF x % 2 = 1 \/ y % 2 = 1 THEN 1 ELSE 0)
       + 2 * BitOr(x \div 2, y \div 2)

RECURSIVE BitXor(_, _)
BitXor(x, y) ==
  IF x = 0 THEN y
  ELSE IF y = 0 THEN x
  ELSE (IF x % 2 = y % 2 THEN 0 ELSE 1) + 2 * BitXor(x \div 2, y \div 2)

\* 1 << n
Bit(n) == 2 ^ n

\* ------------------------------------------------------------------------
\* The pages of the extendible hash table. A page is the bytes of a frame
\* read through a cast: a page of zero bytes reads as the page kind with
\* every field zero.
\* ------------------------------------------------------------------------
\* the keys and values of the table (DiskExtendibleHashTable<int, int, ..>)
HTKeys == 0..MaxKey

HTValues == 1..MaxValue

\* Hash(key): hash_fn_ is a constructor argument; the table is built with
\* the hash function that returns the bits of the key
Hash(key) == key

\* the slots of the arrays of a header and of a directory page
HeaderSlots == 0..(Bit(HeaderMaxDepth) - 1)

DirectorySlots == 0..(Bit(DirectoryMaxDepth) - 1)

ZeroHeader ==
  [kind |-> "header", max_depth_ |-> 0,
   directory_page_ids_ |-> [i \in HeaderSlots |-> 0]]

ZeroDirectory ==
  [kind |-> "directory", max_depth_ |-> 0, global_depth_ |-> 0,
   local_depths_ |-> [i \in DirectorySlots |-> 0],
   bucket_page_ids_ |-> [i \in DirectorySlots |-> 0]]

ZeroBucket == [kind |-> "bucket", size_ |-> 0, max_size_ |-> 0, array_ |-> <<>>]

ZeroOf(kind) ==
  IF kind = "header" THEN ZeroHeader
  ELSE IF kind = "directory" THEN ZeroDirectory
  ELSE ZeroBucket

\* ExtendibleHTableHeaderPage::Init: every directory slot INVALID_PAGE_ID
HeaderInit(hp, max_depth) ==
  [hp EXCEPT !.max_depth_ = max_depth,
             !.directory_page_ids_ =
                [i \in HeaderSlots |->
                   IF i < Bit(max_depth) THEN INVALID_PAGE_ID ELSE @[i]]]

\* ExtendibleHTableHeaderPage::HashToDirectoryIndex: the top max_depth_ bits
\* of the 32-bit hash, hash >> (32 - max_depth_), shifted in two steps of
\* less than 2^31
HashToDirectoryIndex(hp, hash) ==
  IF hp.max_depth_ = 0 THEN 0
  ELSE (hash \div Bit(16)) \div Bit(16 - hp.max_depth_)

\* ExtendibleHTableHeaderPage::SetDirectoryPageId
SetDirectoryPageId(hp, directory_idx, directory_page_id) ==
  [hp EXCEPT !.directory_page_ids_[directory_idx] = directory_page_id]

\* ExtendibleHTableDirectoryPage::Size and MaxSize
Size(dp) == Bit(dp.global_depth_)

MaxSize(dp) == Bit(dp.max_depth_)

\* ExtendibleHTableDirectoryPage::Init: local_depths_ is left as it is
DirectoryInit(dp, max_depth) ==
  [dp EXCEPT !.max_depth_ = max_depth,
             !.global_depth_ = 0,
             !.bucket_page_ids_ =
                [i \in DirectorySlots |->
                   IF i < Bit(max_depth) THEN INVALID_PAGE_ID ELSE @[i]]]

\* ExtendibleHTableDirectoryPage::HashToBucketIndex
HashToBucketIndex(dp, hash) == BitAnd(hash, Bit(dp.global_depth_) - 1)

\* ExtendibleHTableDirectoryPage::GetLocalDepthMask
GetLocalDepthMask(dp, bucket_idx) == Bit(dp.local_depths_[bucket_idx]) - 1

\* ExtendibleHTableDirectoryPage::GetSplitImageIndex; the callers pass a
\* bucket of local depth 1 or more
GetSplitImageIndex(dp, bucket_idx) ==
  BitXor(BitAnd(bucket_idx, GetLocalDepthMask(dp, bucket_idx)),
         Bit(dp.local_depths_[bucket_idx] - 1))

\* ExtendibleHTableDirectoryPage::SetBucketPageId
SetBucketPageId(dp, bucket_idx, bucket_page_id) ==
  [dp EXCEPT !.bucket_page_ids_[bucket_idx] = bucket_page_id]

\* ExtendibleHTableDirectoryPage::SetLocalDepth
SetLocalDepth(dp, bucket_idx, local_depth) ==
  [dp EXCEPT !.local_depths_[bucket_idx] = local_depth]

\* ExtendibleHTableDirectoryPage::IncrLocalDepth
IncrLocalDepth(dp, bucket_idx) ==
  [dp EXCEPT !.local_depths_[bucket_idx] = @ + 1]

\* ExtendibleHTableDirectoryPage::IncrGlobalDepth: the first half of the
\* directory is copied into the second half. The callers double a directory
\* only below directory_max_depth_, so the assert holds
IncrGlobalDepth(dp) ==
  LET half == Size(dp)
  IN [dp EXCEPT
        !.global_depth_ = @ + 1,
        !.bucket_page_ids_ =
           [i \in DirectorySlots |->
              IF half <= i /\ i < 2 * half THEN @[i - half] ELSE @[i]],
        !.local_depths_ =
           [i \in DirectorySlots |->
              IF half <= i /\ i < 2 * half THEN @[i - half] ELSE @[i]]]

\* ExtendibleHTableDirectoryPage::DecrGlobalDepth
DecrGlobalDepth(dp) == [dp EXCEPT !.global_depth_ = @ - 1]

\* CanShrink without the comparison of the local depths
CanShrinkAnyDepth(dp) == dp.global_depth_ # 0

\* ExtendibleHTableDirectoryPage::CanShrink
CanShrink(dp) ==
  /\ dp.global_depth_ # 0
  /\ \A i \in DirectorySlots :
       i < Size(dp) => dp.local_depths_[i] # dp.global_depth_

\* the shrink loop that stops after one DecrGlobalDepth
ShrinkOnce(dp) == IF CanShrink(dp) THEN DecrGlobalDepth(dp) ELSE dp

\* while (directory_page->CanShrink()) directory_page->DecrGlobalDepth()
RECURSIVE Shrink(_)
Shrink(dp) == IF CanShrink(dp) THEN Shrink(DecrGlobalDepth(dp)) ELSE dp

\* ExtendibleHTableBucketPage::Init
BucketInit(bp, max_size) ==
  [bp EXCEPT !.size_ = 0, !.max_size_ = max_size, !.array_ = <<>>]

\* ExtendibleHTableBucketPage::IsFull and IsEmpty
IsFull(bp) == bp.size_ = bp.max_size_

IsEmpty(bp) == bp.size_ = 0

\* the positions of key in a bucket (at most one)
BucketFind(bp, key) == {i \in 1..bp.size_ : bp.array_[i].key = key}

\* ExtendibleHTableBucketPage::Lookup: whether key is there, and its value
BucketLookup(bp, key) ==
  IF BucketFind(bp, key) = {} THEN [found |-> FALSE, value |-> 0]
  ELSE [found |-> TRUE,
        value |-> bp.array_[CHOOSE i \in BucketFind(bp, key) : TRUE].value]

\* ExtendibleHTableBucketPage::Insert: false on a full bucket and on a key
\* that is there
BucketInsert(bp, key, value) ==
  IF IsFull(bp) \/ BucketFind(bp, key) # {} THEN [page |-> bp, ret |-> FALSE]
  ELSE [page |-> [bp EXCEPT !.size_ = @ + 1,
                            !.array_ = Append(@, [key |-> key,
                                                  value |-> value])],
        ret |-> TRUE]

\* ExtendibleHTableBucketPage::RemoveAt (bucket_idx counts from 0)
BucketRemoveAt(bp, bucket_idx) ==
  [bp EXCEPT !.size_ = @ - 1,
             !.array_ = [i \in 1..(bp.size_ - 1) |->
                           IF i <= bucket_idx THEN @[i] ELSE @[i + 1]]]

\* ExtendibleHTableBucketPage::Remove
BucketRemove(bp, key) ==
  IF BucketFind(bp, key) = {} THEN [page |-> bp, ret |-> FALSE]
  ELSE [page |-> BucketRemoveAt(bp, (CHOOSE i \in BucketFind(bp, key) : TRUE)
                                      - 1),
        ret |-> TRUE]

\* ------------------------------------------------------------------------
\* The threads that call the hash table. A call runs in steps; a step ends
\* where the thread may have to wait for a frame latch (Page::RLatch /
\* WLatch inside FetchPageRead, FetchPageWrite and UpgradeWrite). The calls
\* of the buffer pool manager are atomic under its mutex.
\* ------------------------------------------------------------------------
Threads == 1..MaxThreads

\* no entry for a key in the map the table stands for
NoEntry == 0

\* the locals of a thread outside a call; result and values are what a call
\* returns, before is the entry of its key in the map when it returns;
\* stored is what GetValue returned for every key when the call began,
\* full whether the call found the directory full for its key, and dir the
\* directory page of its key when the call began
IdleThread ==
  [pc |-> "idle", op |-> "none", key |-> 0, value |-> 0,
   header_guard |-> NoGuard, directory_guard |-> NoGuard,
   bucket_guard |-> NoGuard,
   directory_page |-> NoFrame, bucket_page |-> NoFrame,
   bucket_idx |-> 0, bucket_page_id |-> INVALID_PAGE_ID,
   pending |-> NoFrame, new_page_id |-> INVALID_PAGE_ID,
   result |-> FALSE, values |-> <<>>, before |-> NoEntry, calls |-> 0,
   stored |-> [k \in HTKeys |-> NoEntry], full |-> FALSE,
   dir |-> ZeroDirectory]

\* the state a step of a thread works on: the buffer pool manager, the
\* latches, the locals of the thread (me) and what the step has found out
Context(b, l, me) ==
  [bpm |-> b, latch |-> l, me |-> me, aborted |-> FALSE,
   confused |-> FALSE, unguarded |-> FALSE]

\* the step has ended the process (a null Page pointer was read through) or
\* has read a frame as a page kind other than the one its bytes hold
Dead(c) == c.aborted \/ c.confused

\* a guard of the thread holds frame f, with the write latch when write
HoldsGuard(me, f, write) ==
  \E g \in {me.header_guard, me.directory_guard, me.bucket_guard} :
    /\ g.page_ = f
    /\ g.kind = "write" \/ (~write /\ g.kind = "read")


\* page->...: an access to the page in frame f through a pointer of page
\* kind `kind`
Access(c, f, kind, write) ==
  IF Dead(c) THEN c
  ELSE IF f = NoFrame THEN [c EXCEPT !.aborted = TRUE]
  ELSE IF /\ c.bpm.pages_[f].data_ # ZeroPage
          /\ c.bpm.pages_[f].data_.kind # kind
       THEN [c EXCEPT !.confused = TRUE]
  ELSE [c EXCEPT !.unguarded = @ \/ ~HoldsGuard(c.me, f, write)]

\* reinterpret_cast<T *>(page->GetData()) of the page in frame f
PageAt(c, f, kind) ==
  IF Dead(c) \/ f = NoFrame THEN ZeroOf(kind)
  ELSE IF c.bpm.pages_[f].data_ = ZeroPage THEN ZeroOf(kind)
  ELSE IF c.bpm.pages_[f].data_.kind # kind THEN ZeroOf(kind)
  ELSE c.bpm.pages_[f].data_

\* the bytes of frame f become page
SetPage(c, f, page) ==
  IF Dead(c) \/ f = NoFrame THEN c
  ELSE [c EXCEPT !.bpm.pages_[f].data_ = page]

\* a write through a pointer of page kind `kind` to the page in frame f
Write(c, f, kind, page) == SetPage(Access(c, f, kind, TRUE), f, page)

\* the thread goes on with the result r of FetchPage: the Page pointer
\* waits in pending for its latch; RLatch / WLatch on a null pointer ends
\* the process
Fetched(c, r) ==
  IF r.page = NoFrame THEN [c EXCEPT !.aborted = TRUE]
  ELSE [c EXCEPT !.bpm = r.bpm, !.me.pending = r.page]

\* bpm_->FetchPage(page_id) inside FetchPageRead / FetchPageWrite, up to
\* the latch; the thread waits for the latch at pc
CtxFetchPage(c, page_id, pc) ==
  IF Dead(c) THEN c
  ELSE Fetched([c EXCEPT !.me.pc = pc], FetchPage(c.bpm, page_id))

\* the thread goes on with the result r of NewPage
Allocated(c, r) ==
  IF r.page = NoFrame THEN [c EXCEPT !.aborted = TRUE]
  ELSE [c EXCEPT !.bpm = r.bpm, !.me.pending = r.page,
                 !.me.new_page_id = r.page_id]

\* bpm_->NewPageGuarded(&page_id) followed by UpgradeWrite(), up to the
\* write latch of the frame; the thread waits for the latch at pc
CtxNewPage(c, pc) ==
  IF Dead(c) THEN c
  ELSE Allocated([c EXCEPT !.me.pc = pc], NewPage(c.bpm))

\* the thread goes on with the result r of a guard operation that leaves
\* its guard `name` empty
Dropped(c, name, r) ==
  [c EXCEPT !.bpm = r.bpm, !.latch = r.latch, !.me[name] = NoGuard,
            !.aborted = r.aborted]

\* mutant of CtxDrop: the guard unpins its frame but keeps the latch
CtxDropKeepsLatch(c, name) ==
  IF Dead(c) THEN c
  ELSE [Dropped(c, name, Drop(c.bpm, c.latch, c.me[name]))
          EXCEPT !.latch = c.latch]

\* guard.Drop() of the guard `name` of the thread
CtxDrop(c, name) ==
  IF Dead(c) THEN c
  ELSE Dropped(c, name, Drop(c.bpm, c.latch, c.me[name]))

\* the temporary WritePageGuard that UpgradeWrite() returned in r is marked
\* dirty by AsMut and destroyed at the end of the expression
DropTemp(r) ==
  WriteDrop(r.bpm, r.latch, [r.guard EXCEPT !.is_dirty_ = TRUE])

\* the thread goes on with the result r of dropping the temporary guard
AfterTemp(c, r) == [c EXCEPT !.bpm = r.bpm, !.latch = r.latch]

\* bpm_->NewPageGuarded(&page_id).UpgradeWrite().AsMut<T>() once the write
\* latch is there: the pointer (pending) outlives the guard it came from;
\* the frame is unpinned and unlatched
TempPointer(c) ==
  IF Dead(c) THEN c
  ELSE AfterTemp(c, DropTemp(UpgradeWrite(c.bpm, c.latch,
                                          MakeGuard("basic", c.me.pending))))

\* the latch of a FetchPageRead / FetchPageWrite is there: the guard the
\* call returns; AsMut marks it dirty
Latched(c, name, write, dirty) ==
  IF Dead(c) THEN c
  ELSE [c EXCEPT
          !.latch = IF write THEN WLatch(@, c.me.pending)
                    ELSE RLatch(@, c.me.pending),
          !.me[name] = [MakeGuard(IF write THEN "write" ELSE "read",
                                  c.me.pending)
                          EXCEPT !.is_dirty_ = dirty]]

\* the call has returned ret (and values through *result)
Returns(c, ret, values) ==
  IF Dead(c) THEN c
  ELSE [c EXCEPT !.me = [IdleThread EXCEPT !.pc = "returned",
                                           !.op = c.me.op,
                                           !.key = c.me.key,
                                           !.value = c.me.value,
                                           !.result = ret,
                                           !.values = values,
                                           !.calls = c.me.calls,
                                           !.stored = c.me.stored,
                                           !.full = c.me.full,
                                           !.dir = c.me.dir]]

\* return ret: the guards of the call are destroyed, the last one declared
\* first
Leave(c, ret, values) ==
  Returns(CtxDrop(CtxDrop(CtxDrop(c, "bucket_guard"), "directory_guard"),
                  "header_guard"),
          ret, values)

\* ------------------------------------------------------------------------
\* DiskExtendibleHashTable
\* ------------------------------------------------------------------------
\* bucket_page->Insert(key, value, cmp_) of the call on the bucket page in
\* frame f
InsertEntry(c, f) ==
  BucketInsert(PageAt(c, f, "bucket"), c.me.key, c.me.value)

\* return bucket_page->Insert(key, value, cmp_) on the bucket page in
\* frame f
InsertAndLeave(c, f) ==
  Leave(Write(c, f, "bucket", InsertEntry(c, f).page), InsertEntry(c, f).ret,
        <<>>)

\* InsertToNewBucket, line 176: bucket_page->Init(bucket_max_size_)
InitNewBucket(c) ==
  Write(c, c.me.pending, "bucket",
        BucketInit(PageAt(c, c.me.pending, "bucket"),
                   ht.bucket_max_size_))

\* InsertToNewBucket, lines 177-178
LinkNewBucket(c) ==
  Write(c, c.me.directory_page, "directory",
        SetLocalDepth(
          SetBucketPageId(PageAt(c, c.me.directory_page, "directory"),
                          c.me.bucket_idx, c.me.new_page_id),
          c.me.bucket_idx, 0))

\* InsertToNewBucket from the latch of the new bucket page on
InsertToNewBucket(c) ==
  InsertAndLeave(LinkNewBucket(InitNewBucket(TempPointer(c))),
                 c.me.pending)

\* InsertToNewDirectory, line 166: directory_page->Init(directory_max_depth_)
InitNewDirectory(c) ==
  Write([c EXCEPT !.me.directory_page = c.me.pending], c.me.pending,
        "directory",
        DirectoryInit(PageAt(c, c.me.pending, "directory"),
                      DirectoryMaxDepth))

\* InsertToNewDirectory, line 167: header->SetDirectoryPageId(...); the
\* directory index waits in bucket_idx
LinkNewDirectory(c) ==
  Write(c, c.me.header_guard.page_, "header",
        SetDirectoryPageId(PageAt(c, c.me.header_guard.page_, "header"),
                           c.me.bucket_idx, c.me.new_page_id))

\* InsertToNewDirectory, line 168: InsertToNewBucket(directory_page,
\* directory_page->HashToBucketIndex(hash), ...) up to the latch of the new
\* bucket page
CallInsertToNewBucket(c) ==
  CtxNewPage([Access(c, c.me.directory_page, "directory", FALSE)
                EXCEPT !.me.bucket_idx =
                  HashToBucketIndex(PageAt(c, c.me.directory_page,
                                           "directory"),
                                    Hash(c.me.key))],
             "new_bucket")

\* InsertToNewDirectory from the latch of the new directory page on
InsertToNewDirectory(c) ==
  CallInsertToNewBucket(LinkNewDirectory(InitNewDirectory(TempPointer(c))))

\* mutant of UpdateDirectoryMapping: the new bucket page id goes to the slots
\* whose bit new_depth - 1 differs from that of old_bucket_idx
UpdateDirectoryMappingFlipped(dp, old_bucket_idx, new_id, new_depth, mask) ==
  [dp EXCEPT
     !.bucket_page_ids_ =
        [i \in DirectorySlots |->
           IF /\ i < Size(dp)
              /\ BitAnd(i, mask \div 2) = BitAnd(old_bucket_idx, mask \div 2)
              /\ (i \div Bit(new_depth - 1)) % 2
                   # (old_bucket_idx \div Bit(new_depth - 1)) % 2
           THEN new_id ELSE @[i]],
     !.local_depths_ =
        [i \in DirectorySlots |->
           IF /\ i < Size(dp)
              /\ BitAnd(i, mask \div 2) = BitAnd(old_bucket_idx, mask \div 2)
           THEN new_depth ELSE @[i]]]

\* UpdateDirectoryMapping with the stride of the local depth before the
\* split: both halves of the split bucket get the new page
UpdateDirectoryMappingHalfStride(dp, old_bucket_idx, new_id, new_depth, mask) ==
  LET new_first_bucket_idx == BitAnd(old_bucket_idx, mask \div 2)
      at == {i \in DirectorySlots :
               /\ i < Size(dp)
               /\ i >= new_first_bucket_idx
               /\ (i - new_first_bucket_idx) % Bit(new_depth - 1) = 0}
  IN [dp EXCEPT
        !.bucket_page_ids_ =
           [i \in DirectorySlots |->
              IF i \in at THEN new_id ELSE @[i]],
        !.local_depths_ =
           [i \in DirectorySlots |->
              IF i \in at THEN new_depth ELSE @[i]]]

\* UpdateDirectoryMapping
UpdateDirectoryMapping(dp, old_bucket_idx, new_id, new_depth, mask) ==
  LET new_first_bucket_idx == BitAnd(old_bucket_idx, mask \div 2)
      prime_idx == BitOr(new_first_bucket_idx, Bit(new_depth - 1))
      distance == Bit(new_depth)
      at == {i \in DirectorySlots :
               /\ i < Size(dp)
               /\ i >= new_first_bucket_idx
               /\ (i - new_first_bucket_idx) % distance = 0}
      primes == {i - new_first_bucket_idx + prime_idx : i \in at}
  IN [dp EXCEPT
        !.bucket_page_ids_ =
           [i \in DirectorySlots |->
              IF i \in at THEN new_id ELSE @[i]],
        !.local_depths_ =
           [i \in DirectorySlots |->
              IF i \in at \cup primes THEN new_depth ELSE @[i]]]

\* MigrateEntries, lines 154-155: entry i of old_bucket goes to new_bucket
MoveEntry(c, old_bucket, new_bucket, i) ==
  Write(Write(c, new_bucket, "bucket",
              BucketInsert(PageAt(c, new_bucket, "bucket"),
                           PageAt(c, old_bucket, "bucket").array_[i + 1].key,
                           PageAt(c, old_bucket, "bucket").array_[i + 1].value
                          ).page),
        old_bucket, "bucket",
        BucketRemoveAt(
          PageAt(Write(c, new_bucket, "bucket",
                       BucketInsert(
                         PageAt(c, new_bucket, "bucket"),
                         PageAt(c, old_bucket, "bucket").array_[i + 1].key,
                         PageAt(c, old_bucket, "bucket").array_[i + 1].value
                       ).page),
                 old_bucket, "bucket"),
          i))

\* MigrateEntries from entry i on; old_bucket and new_bucket are pointers
\* to frames, and every call on them works on the bytes the frame holds
RECURSIVE MigrateEntries(_, _, _, _, _, _)
MigrateEntries(c, old_bucket, new_bucket, new_bucket_idx, mask, i) ==
  IF Dead(c) \/ i >= PageAt(c, old_bucket, "bucket").size_
  THEN Access(c, old_bucket, "bucket", FALSE)
  ELSE IF BitAnd(Hash(PageAt(c, old_bucket, "bucket").array_[i + 1].key),
                 mask) = new_bucket_idx
  THEN MigrateEntries(MoveEntry(Access(c, old_bucket, "bucket", FALSE),
                                old_bucket, new_bucket, i),
                      old_bucket, new_bucket, new_bucket_idx,
                      mask, i)
  ELSE MigrateEntries(Access(c, old_bucket, "bucket", FALSE), old_bucket,
                      new_bucket, new_bucket_idx, mask, i + 1)

\* the split loop that gives up as soon as the bucket has the global depth,
\* without doubling the directory
SplitStartNoGrow(c) ==
  IF PageAt(c, c.me.directory_page, "directory").global_depth_
       = PageAt(c, c.me.directory_page, "directory")
           .local_depths_[c.me.bucket_idx]
  THEN Leave(c, FALSE, <<>>)
  ELSE CtxNewPage(c, "split")

\* Insert, lines 109-118: the directory grows when the bucket is as deep as
\* the directory, and the new bucket page is allocated, up to its latch; a
\* full bucket in a directory of directory_max_depth_ returns false
SplitStart(c) ==
  IF /\ PageAt(c, c.me.directory_page, "directory").global_depth_
          = PageAt(c, c.me.directory_page, "directory")
              .local_depths_[c.me.bucket_idx]
     /\ PageAt(c, c.me.directory_page, "directory").global_depth_
          = DirectoryMaxDepth
  THEN Leave(c, FALSE, <<>>)
  ELSE CtxNewPage(
         SetPage(c, c.me.directory_page,
                 IF PageAt(c, c.me.directory_page, "directory").global_depth_
                      = PageAt(c, c.me.directory_page, "directory")
                          .local_depths_[c.me.bucket_idx]
                 THEN IncrGlobalDepth(PageAt(c, c.me.directory_page,
                                             "directory"))
                 ELSE PageAt(c, c.me.directory_page, "directory")),
         "split")

\* Insert, lines 108 and 137: while (bucket_page->IsFull()) ..., and the
\* insertion after the loop
SplitLoop(c) ==
  IF ~IsFull(PageAt(c, c.me.bucket_page, "bucket"))
  THEN InsertAndLeave(Access(c, c.me.bucket_page, "bucket", FALSE),
                      c.me.bucket_page)
  ELSE SplitStart(Access(Access(c, c.me.bucket_page, "bucket", FALSE),
                         c.me.directory_page, "directory", TRUE))

\* Insert, lines 120-124 on the directory page dp
SplitMapping(dp, bucket_idx, new_bucket_page_id) ==
  UpdateDirectoryMapping(
    IncrLocalDepth(dp, bucket_idx), bucket_idx, new_bucket_page_id,
    IncrLocalDepth(dp, bucket_idx).local_depths_[bucket_idx],
    GetLocalDepthMask(IncrLocalDepth(dp, bucket_idx), bucket_idx))

\* Insert, line 119: new_bucket_page->Init(bucket_max_size_)
SplitInit(c) ==
  Write(c, c.me.pending, "bucket",
        BucketInit(PageAt(c, c.me.pending, "bucket"),
                   ht.bucket_max_size_))

\* Insert, lines 120-124: the directory maps the new bucket page
SplitDirectory(c) ==
  Write(c, c.me.directory_page, "directory",
        SplitMapping(PageAt(c, c.me.directory_page, "directory"),
                     c.me.bucket_idx, c.me.new_page_id))

\* Insert, lines 125-127: MigrateEntries(bucket_page, new_bucket_page,
\* bucket_idx & (local_depth_mask >> 1), local_depth_mask); the mask is the
\* one of bucket_idx after IncrLocalDepth, which UpdateDirectoryMapping
\* leaves in the directory page
SplitMigrate(c) ==
  MigrateEntries(
    c, c.me.bucket_page, c.me.pending,
    BitAnd(c.me.bucket_idx,
           GetLocalDepthMask(PageAt(c, c.me.directory_page, "directory"),
                             c.me.bucket_idx) \div 2),
    GetLocalDepthMask(PageAt(c, c.me.directory_page, "directory"),
                      c.me.bucket_idx),
    0)

\* the bucket index of the key of the call in the directory page
KeyBucketIndex(c) ==
  HashToBucketIndex(PageAt(c, c.me.directory_page, "directory"),
                    Hash(c.me.key))

\* the bucket page id the directory page holds for the key of the call
KeyBucketPageId(c) ==
  PageAt(c, c.me.directory_page, "directory")
    .bucket_page_ids_[KeyBucketIndex(c)]

\* Insert, lines 130-135: the bucket of the key is looked up again
SplitReload(c) ==
  IF Dead(c) THEN c
  ELSE [c EXCEPT
          !.me.bucket_idx = KeyBucketIndex(c),
          !.me.bucket_page_id = KeyBucketPageId(c),
          !.me.bucket_page = IF KeyBucketPageId(c) = c.me.new_page_id
                             THEN c.me.pending ELSE @]

\* Insert, lines 119-136: the split from the latch of the new bucket page on
SplitBody(c) ==
  SplitLoop(
    SplitReload(SplitMigrate(SplitDirectory(SplitInit(TempPointer(c))))))

\* Remove, lines 252-255: the directory shrinks and the call returns
ShrinkAndLeave(c) ==
  Leave(Write(c, c.me.directory_page, "directory",
              Shrink(PageAt(c, c.me.directory_page, "directory"))),
        c.me.result, <<>>)

\* Remove, lines 229-233 on the directory page dp: every slot that shares
\* the low bits of bucket_idx below its local depth goes to the page of the
\* split image, one level up
MergeMapping(dp, bucket_idx) ==
  [dp EXCEPT
     !.bucket_page_ids_ =
        [i \in DirectorySlots |->
           IF /\ i < Size(dp)
              /\ i >= BitAnd(bucket_idx,
                             GetLocalDepthMask(dp, bucket_idx) \div 2)
              /\ (i - BitAnd(bucket_idx,
                             GetLocalDepthMask(dp, bucket_idx) \div 2))
                   % Bit(dp.local_depths_[bucket_idx] - 1) = 0
           THEN dp.bucket_page_ids_[GetSplitImageIndex(dp, bucket_idx)]
           ELSE @[i]],
     !.local_depths_ =
        [i \in DirectorySlots |->
           IF /\ i < Size(dp)
              /\ i >= BitAnd(bucket_idx,
                             GetLocalDepthMask(dp, bucket_idx) \div 2)
              /\ (i - BitAnd(bucket_idx,
                             GetLocalDepthMask(dp, bucket_idx) \div 2))
                   % Bit(dp.local_depths_[bucket_idx] - 1) = 0
           THEN dp.local_depths_[bucket_idx] - 1
           ELSE @[i]]]

\* Remove, lines 235-246: after the merge into the bucket at merge_bucket_idx
\* the loop ends, or goes on with the split image of that bucket, up to the
\* latch of its page
MergeNext(c, merge_bucket_idx, new_local_depth) ==
  IF new_local_depth = 0 THEN ShrinkAndLeave(c)
  ELSE IF PageAt(c, c.me.directory_page, "directory").bucket_page_ids_[
            GetSplitImageIndex(PageAt(c, c.me.directory_page, "directory"),
                               merge_bucket_idx)] = INVALID_PAGE_ID
  THEN ShrinkAndLeave(c)
  ELSE CtxFetchPage(
         [c EXCEPT
            !.me.bucket_idx =
               GetSplitImageIndex(
                 PageAt(c, c.me.directory_page, "directory"),
                 merge_bucket_idx),
            !.me.bucket_page_id =
               PageAt(c, c.me.directory_page, "directory").bucket_page_ids_[
                 GetSplitImageIndex(
                   PageAt(c, c.me.directory_page, "directory"),
                   merge_bucket_idx)]],
         PageAt(c, c.me.directory_page, "directory").bucket_page_ids_[
           GetSplitImageIndex(PageAt(c, c.me.directory_page, "directory"),
                              merge_bucket_idx)],
         "merge")

\* bpm_->DeletePage(page_id)
CtxDeletePage(c, page_id) ==
  IF Dead(c) THEN c ELSE [c EXCEPT !.bpm = DeletePage(@, page_id).bpm]

\* Remove, lines 218-250: one round of the merge loop after the guard of the
\* empty bucket was dropped
MergeStep(c) ==
  IF PageAt(c, c.me.directory_page, "directory")
       .local_depths_[c.me.bucket_idx] = 0
  THEN ShrinkAndLeave(c)
  ELSE IF PageAt(c, c.me.directory_page, "directory")
            .local_depths_[c.me.bucket_idx]
          # PageAt(c, c.me.directory_page, "directory").local_depths_[
              GetSplitImageIndex(PageAt(c, c.me.directory_page, "directory"),
                                 c.me.bucket_idx)]
  THEN ShrinkAndLeave(c)
  ELSE MergeNext(
         CtxDeletePage(
           SetPage(c, c.me.directory_page,
                   MergeMapping(PageAt(c, c.me.directory_page, "directory"),
                                c.me.bucket_idx)),
           c.me.bucket_page_id),
         GetSplitImageIndex(PageAt(c, c.me.directory_page, "directory"),
                            c.me.bucket_idx),
         PageAt(c, c.me.directory_page, "directory")
           .local_depths_[c.me.bucket_idx] - 1)

\* Remove, lines 216-217: while (bucket_page->IsEmpty()) ..., from the head
\* of the loop up to the latch of the next bucket page or up to the return
MergeLoop(c) ==
  IF ~IsEmpty(PageAt(c, c.me.bucket_page, "bucket"))
  THEN ShrinkAndLeave(Access(c, c.me.bucket_page, "bucket", FALSE))
  ELSE MergeStep(Access(CtxDrop(Access(c, c.me.bucket_page, "bucket", FALSE),
                                "bucket_guard"),
                        c.me.directory_page, "directory", TRUE))

\* ------------------------------------------------------------------------
\* The steps of the calls of GetValue, Insert and Remove
\* ------------------------------------------------------------------------
\* the directory page id the header page holds for the key of the call
KeyDirectoryIndex(c) ==
  HashToDirectoryIndex(PageAt(c, c.me.pending, "header"), Hash(c.me.key))

KeyDirectoryPageId(c) ==
  PageAt(c, c.me.pending, "header").directory_page_ids_[KeyDirectoryIndex(c)]

\* GetValue, Insert and Remove after header_guard is there: the directory
\* page is fetched; without one Insert calls InsertToNewDirectory, up to the
\* latch of the new directory page, and GetValue and Remove return false
FindDirectory(c) ==
  IF KeyDirectoryPageId(c) # INVALID_PAGE_ID
  THEN CtxFetchPage(c, KeyDirectoryPageId(c), "directory")
  ELSE IF c.me.op = "Insert"
  THEN CtxNewPage([c EXCEPT !.me.bucket_idx = KeyDirectoryIndex(c)],
                  "new_directory")
  ELSE Leave(c, FALSE, <<>>)

\* GetValue, Insert and Remove from the latch of the header page on
AfterHeader(c) ==
  FindDirectory(
    Access(Latched(c, "header_guard", c.me.op = "Insert",
                   c.me.op = "Insert"),
           c.me.pending, "header", FALSE))

\* GetValue, Insert and Remove after directory_guard is there: the bucket
\* page is fetched (Insert drops header_guard first); without one Insert
\* calls InsertToNewBucket, up to the latch of the new bucket page, and
\* GetValue and Remove return false
FindBucket(c) ==
  IF c.me.bucket_page_id # INVALID_PAGE_ID
  THEN CtxFetchPage(IF c.me.op = "Insert" THEN CtxDrop(c, "header_guard")
                    ELSE c,
                    c.me.bucket_page_id, "bucket")
  ELSE IF c.me.op = "Insert" THEN CtxNewPage(c, "new_bucket")
  ELSE Leave(c, FALSE, <<>>)

\* bucket_idx and bucket_page_id of the key of the call
LoadBucketIndex(c) ==
  IF Dead(c) THEN c
  ELSE [c EXCEPT !.me.directory_page = c.me.pending,
                 !.me.bucket_idx =
                    KeyBucketIndex([c EXCEPT !.me.directory_page =
                                               c.me.pending]),
                 !.me.bucket_page_id =
                    KeyBucketPageId([c EXCEPT !.me.directory_page =
                                                c.me.pending])]

\* GetValue, Insert and Remove from the latch of the directory page on
AfterDirectory(c) ==
  FindBucket(
    LoadBucketIndex(
      Access(Latched(c, "directory_guard", c.me.op # "GetValue",
                     c.me.op # "GetValue"),
             c.me.pending, "directory", FALSE)))

\* GetValue, lines 70-78
LookupAndLeave(c) ==
  Leave(c,
        BucketLookup(PageAt(c, c.me.bucket_page, "bucket"), c.me.key).found,
        IF BucketLookup(PageAt(c, c.me.bucket_page, "bucket"),
                        c.me.key).found
        THEN <<BucketLookup(PageAt(c, c.me.bucket_page, "bucket"),
                            c.me.key).value>>
        ELSE <<>>)

\* Remove, line 215: bool result = bucket_page->Remove(key, cmp_)
RemoveEntry(c) ==
  [Write(c, c.me.bucket_page, "bucket",
         BucketRemove(PageAt(c, c.me.bucket_page, "bucket"), c.me.key).page)
     EXCEPT !.me.result =
       BucketRemove(PageAt(c, c.me.bucket_page, "bucket"), c.me.key).ret]

\* GetValue, Insert and Remove after bucket_guard is there
InBucket(c) ==
  IF c.me.op = "GetValue" THEN LookupAndLeave(c)
  ELSE IF c.me.op = "Insert"
  THEN IF BucketLookup(PageAt(c, c.me.bucket_page, "bucket"), c.me.key).found
       THEN Leave(c, FALSE, <<>>)
       ELSE SplitLoop(c)
  ELSE MergeLoop(RemoveEntry(c))

\* the bucket_page pointer of the guard that was latched last
PointBucket(c) ==
  IF Dead(c) THEN c ELSE [c EXCEPT !.me.bucket_page = c.me.pending]

\* GetValue, Insert and Remove from the latch of the bucket page on
AfterBucket(c) ==
  InBucket(
    Access(PointBucket(Latched(c, "bucket_guard", c.me.op # "GetValue",
                               c.me.op # "GetValue")),
           c.me.pending, "bucket", FALSE))

\* Remove from the latch of the next bucket page of the merge loop on
AfterMerge(c) ==
  MergeLoop(PointBucket(Latched(c, "bucket_guard", TRUE, TRUE)))

\* the header page of a new table: lines 46-48
ConstructHeader(c) ==
  Write(TempPointer(c), c.me.pending, "header",
        HeaderInit(PageAt(c, c.me.pending, "header"), HeaderMaxDepth))

\* the new state after a step of thread t that ends in context c. A dead
\* process takes no more steps. When the call has returned, the map the
\* table stands for is brought up to date
HTCommit(t, c) ==
  /\ unguarded' = (unguarded \/ c.unguarded)
  /\ aborted' = (aborted \/ c.aborted)
  /\ confused' = (confused \/ (c.confused /\ ~c.aborted))
  /\ IF Dead(c)
     THEN UNCHANGED <<bpm, latch, th, ht_map>>
     ELSE /\ bpm' = c.bpm
          /\ latch' = c.latch
          /\ IF c.me.pc = "returned"
             THEN /\ th' = [th EXCEPT ![t] =
                             [c.me EXCEPT !.before = ht_map[c.me.key]]]
                  /\ ht_map' =
                       IF c.me.op = "Insert" /\ c.me.result
                       THEN [ht_map EXCEPT ![c.me.key] = c.me.value]
                       ELSE IF c.me.op = "Remove" /\ c.me.result
                       THEN [ht_map EXCEPT ![c.me.key] = NoEntry]
                       ELSE ht_map
             ELSE th' = [th EXCEPT ![t] = c.me] /\ UNCHANGED ht_map
  /\ UNCHANGED <<ht, raw_pins, raw_writers, last_written, discarded,
                 bpm_last, guards>>

\* the table is there and the process runs
HTRunning ==
  /\ ht.header_page_id_ # INVALID_PAGE_ID
  /\ ~aborted
  /\ ~confused

\* the pages one Insert allocates at most: a directory and a bucket, or one
\* bucket for every split
MaxAlloc == IF DirectoryMaxDepth > 2 THEN DirectoryMaxDepth ELSE 2

\* the page ids that are left are enough for the Inserts under way and one
\* more
PageRoom(ts) ==
  bpm.next_page_id_
    + MaxAlloc * (1 + Cardinality({u \in ts : th[u].op = "Insert"}))
    <= HTMaxPages

\* the new state after the constructor ends in context c
HTConstructed(c, bucket_max_size) ==
  /\ bpm' = c.bpm
  /\ latch' = c.latch
  /\ unguarded' = (unguarded \/ c.unguarded)
  /\ aborted' = (aborted \/ c.aborted)
  /\ ht' = [header_page_id_ |-> IF Dead(c) THEN INVALID_PAGE_ID
                                ELSE c.me.new_page_id,
            bucket_max_size_ |-> bucket_max_size]

\* DiskExtendibleHashTable::DiskExtendibleHashTable with a bucket_max_size
\* of sizes
HTConstruct(sizes) ==
  /\ ht.header_page_id_ = INVALID_PAGE_ID
  /\ ~aborted
  /\ \E bucket_max_size \in sizes :
       HTConstructed(
         ConstructHeader(CtxNewPage(Context(bpm, latch, IdleThread), "idle")),
         bucket_max_size)
  /\ UNCHANGED <<th, ht_map, confused, raw_pins, raw_writers, last_written,
                 discarded, bpm_last, guards>>

\* ------------------------------------------------------------------------
\* What the table holds in a state: the pages as the next FetchPage finds
\* them, and the answers of GetValue
\* ------------------------------------------------------------------------
\* the bytes of page page_id as the next FetchPage finds them: the frame of
\* a resident page, the disk otherwise
StoredPage(page_id, kind) ==
  LET data == IF Resident(bpm, page_id)
              THEN bpm.pages_[FrameOf(bpm, page_id)].data_
              ELSE bpm.disk_[page_id]
  IN IF data = ZeroPage THEN ZeroOf(kind)
     ELSE IF data.kind # kind THEN ZeroOf(kind)
     ELSE data

\* the directory pages of the table
TableDirectories ==
  IF ht.header_page_id_ = INVALID_PAGE_ID THEN {}
  ELSE {StoredPage(id, "directory") :
          id \in {StoredPage(ht.header_page_id_, "header")
                    .directory_page_ids_[i] : i \in HeaderSlots}
                 \ {INVALID_PAGE_ID}}

\* the slots of directory dp below 2^global_depth
LiveSlots(dp) == {i \in DirectorySlots : i < Size(dp)}

\* the page id of the directory of key
DirectoryOf(key) ==
  StoredPage(ht.header_page_id_, "header")
    .directory_page_ids_[HashToDirectoryIndex(
                           StoredPage(ht.header_page_id_, "header"),
                           Hash(key))]

\* the bucket that key hashes to in directory dp is full and has
\* local_depth = global_depth = directory_max_depth_
FullIn(dp, key) ==
  /\ dp.bucket_page_ids_[HashToBucketIndex(dp, Hash(key))] # INVALID_PAGE_ID
  /\ IsFull(StoredPage(dp.bucket_page_ids_[HashToBucketIndex(dp, Hash(key))],
                       "bucket"))
  /\ dp.local_depths_[HashToBucketIndex(dp, Hash(key))] = dp.global_depth_
  /\ dp.global_depth_ = DirectoryMaxDepth

\* Insert(key, ...) finds the directory full
DirectoryFull(key) ==
  /\ DirectoryOf(key) # INVALID_PAGE_ID
  /\ FullIn(StoredPage(DirectoryOf(key), "directory"), key)

\* the directory page of key, a zeroed page when there is none
DirectoryAt(key) ==
  IF DirectoryOf(key) = INVALID_PAGE_ID THEN ZeroDirectory
  ELSE StoredPage(DirectoryOf(key), "directory")

\* the steps of a GetValue that no thread interrupts
ThenHeader(c) ==
  IF ~Dead(c) /\ c.me.pc = "header" THEN AfterHeader(c) ELSE c

ThenDirectory(c) ==
  IF ~Dead(c) /\ c.me.pc = "directory" THEN AfterDirectory(c) ELSE c

ThenBucket(c) ==
  IF ~Dead(c) /\ c.me.pc = "bucket" THEN AfterBucket(c) ELSE c

\* DiskExtendibleHashTable::GetValue(key) called in this state
GetValue(b, l, key) ==
  ThenBucket(ThenDirectory(ThenHeader(
    CtxFetchPage(Context(b, l, [IdleThread EXCEPT !.op = "GetValue",
                                                  !.key = key]),
                 ht.header_page_id_, "header"))))

\* the value a GetValue that ends in context c has returned, NoEntry for
\* false
ValueOf(c) ==
  IF Dead(c) \/ c.me.pc # "returned" \/ ~c.me.result THEN NoEntry
  ELSE c.me.values[1]

\* what GetValue returns for every key in this state (nothing before the
\* table is constructed)
Retrievable ==
  [k \in HTKeys |->
     IF ht.header_page_id_ = INVALID_PAGE_ID THEN NoEntry
     ELSE ValueOf(GetValue(bpm, latch, k))]

\* a thread calls GetValue(key), Insert(key, value) or Remove(key), up to
\* the latch of the header page. With counted, a thread makes MaxCalls calls
\* at most, among the calls of other threads; a call that is not counted
\* runs alone and remembers what the table held when it began (stored, full
\* and dir)
HTCall(t, ts, keys, counted) ==
  \E op \in {"GetValue", "Insert", "Remove"}, key \in keys,
     value \in HTValues,
     stored \in {IF counted THEN IdleThread.stored ELSE Retrievable} :
    /\ HTRunning
    /\ th[t].pc = "idle"
    /\ counted => th[t].calls < MaxCalls
    /\ op = "Insert" => PageRoom(ts)
    /\ op # "Insert" => value = 1
    /\ \E c \in {CtxFetchPage(
                    Context(bpm, latch,
                            [th[t] EXCEPT !.op = op, !.key = key,
                                          !.value = value,
                                          !.stored = stored,
                                          !.full = ~counted
                                                     /\ DirectoryFull(key),
                                          !.dir = IF counted THEN @
                                                  ELSE DirectoryAt(key),
                                          !.calls = IF counted THEN @ + 1
                                                    ELSE @]),
                    ht.header_page_id_, "header")} :
         HTCommit(t, c)

\* the thread gets the latch of the header page
HTLatchHeader(t) ==
  /\ HTRunning
  /\ th[t].pc = "header"
  /\ IF th[t].op = "Insert" THEN CanWLatch(latch, th[t].pending)
     ELSE CanRLatch(latch, th[t].pending)
  /\ \E c \in {AfterHeader(Context(bpm, latch, th[t]))} : HTCommit(t, c)

\* the thread gets the latch of the directory page
HTLatchDirectory(t) ==
  /\ HTRunning
  /\ th[t].pc = "directory"
  /\ IF th[t].op = "GetValue" THEN CanRLatch(latch, th[t].pending)
     ELSE CanWLatch(latch, th[t].pending)
  /\ \E c \in {AfterDirectory(Context(bpm, latch, th[t]))} : HTCommit(t, c)

\* the thread gets the latch of the bucket page
HTLatchBucket(t) ==
  /\ HTRunning
  /\ th[t].pc = "bucket"
  /\ IF th[t].op = "GetValue" THEN CanRLatch(latch, th[t].pending)
     ELSE CanWLatch(latch, th[t].pending)
  /\ \E c \in {AfterBucket(Context(bpm, latch, th[t]))} : HTCommit(t, c)

\* the thread gets the write latch of the frame of its new directory page
HTLatchNewDirectory(t) ==
  /\ HTRunning
  /\ th[t].pc = "new_directory"
  /\ CanWLatch(latch, th[t].pending)
  /\ \E c \in {InsertToNewDirectory(Context(bpm, latch, th[t]))} : HTCommit(t, c)

\* the thread gets the write latch of the frame of its new bucket page
\* (InsertToNewBucket)
HTLatchNewBucket(t) ==
  /\ HTRunning
  /\ th[t].pc = "new_bucket"
  /\ CanWLatch(latch, th[t].pending)
  /\ \E c \in {InsertToNewBucket(Context(bpm, latch, th[t]))} : HTCommit(t, c)

\* the thread gets the write latch of the frame of the new bucket page of a
\* split
HTLatchSplit(t) ==
  /\ HTRunning
  /\ th[t].pc = "split"
  /\ CanWLatch(latch, th[t].pending)
  /\ \E c \in {SplitBody(Context(bpm, latch, th[t]))} : HTCommit(t, c)

\* the thread gets the write latch of the next bucket page of the merge loop
HTLatchMerge(t) ==
  /\ HTRunning
  /\ th[t].pc = "merge"
  /\ CanWLatch(latch, th[t].pending)
  /\ \E c \in {AfterMerge(Context(bpm, latch, th[t]))} : HTCommit(t, c)

\* the caller has the result of the call
HTReturn(t) ==
  /\ HTRunning
  /\ th[t].pc = "returned"
  /\ th' = [th EXCEPT ![t] = [IdleThread EXCEPT !.calls = th[t].calls]]
  /\ UNCHANGED <<bpm, latch, ht_map, unguarded, aborted, confused, ht,
                 raw_pins, raw_writers, last_written, discarded, bpm_last,
                 guards>>

\* a step of thread t inside a call
HTStep(t) ==
  \/ HTLatchHeader(t)
  \/ HTLatchDirectory(t)
  \/ HTLatchBucket(t)
  \/ HTLatchNewDirectory(t)
  \/ HTLatchNewBucket(t)
  \/ HTLatchSplit(t)
  \/ HTLatchMerge(t)
  \/ HTReturn(t)

HTInit ==
  /\ ht = [header_page_id_ |-> INVALID_PAGE_ID, bucket_max_size_ |-> 0]
  /\ th = [t \in Threads |-> IdleThread]
  /\ ht_map = [k \in HTKeys |-> NoEntry]
  /\ unguarded = FALSE
  /\ confused = FALSE

\* ------------------------------------------------------------------------
\* Threads that each hold one guard, guards[t], and run the steps of the
\* guard-returning calls and of Drop one by one: th[t].pc is where the
\* thread is, th[t].pending the frame whose latch it waits for
\* ------------------------------------------------------------------------
LiveThreads == Threads \cap GuardIds

\* the other variables of a step of a thread
LiveStep ==
  /\ bpm_last' = NoCall
  /\ UNCHANGED <<raw_pins, raw_writers, last_written, discarded, ht, ht_map,
                 unguarded, confused>>

\* { auto guard = bpm->NewPageGuarded(&page_id); ... }: the call; a guard on
\* a null frame ends the process when it is dropped
LiveNewPageGuarded(t) ==
  /\ ~aborted
  /\ th[t].pc = "idle"
  /\ bpm.next_page_id_ < MaxPages
  /\ \E r \in {NewPageGuarded(bpm, latch)} :
       /\ bpm' = r.bpm
       /\ guards' = [guards EXCEPT ![t] = r.guard]
       /\ th' = [th EXCEPT ![t].pc = "basic", ![t].op = "NewPageGuarded"]
  /\ UNCHANGED <<latch, aborted>>
  /\ LiveStep

\* ... and the Drop of the basic guard at the end of the scope
LiveDropBasic(t) ==
  /\ ~aborted
  /\ th[t].pc = "basic"
  /\ \E r \in {BasicDrop(bpm, latch, guards[t])} :
       /\ aborted' = r.aborted
       /\ bpm' = r.bpm
       /\ guards' = [guards EXCEPT ![t] = NoGuard]
  /\ th' = [th EXCEPT ![t] = IdleThread]
  /\ UNCHANGED latch
  /\ LiveStep

\* bpm->FetchPageRead(page_id) / FetchPageWrite(page_id), line 202 / 208:
\* FetchPage pins the page; the latch call reads through a null pointer
\* when FetchPage found no frame
LiveFetchPage(t) ==
  \E page_id \in PageIds, write \in BOOLEAN :
    /\ ~aborted
    /\ th[t].pc = "idle"
    /\ page_id < bpm.next_page_id_
    /\ \E r \in {FetchPage(bpm, page_id)} :
         /\ bpm' = r.bpm
         /\ aborted' = (r.page = NoFrame)
         /\ th' = [th EXCEPT
                     ![t].pc = "latch",
                     ![t].op = IF write THEN "FetchPageWrite"
                               ELSE "FetchPageRead",
                     ![t].bucket_page_id = page_id,
                     ![t].pending = r.page]
    /\ UNCHANGED <<latch, guards>>
    /\ LiveStep

\* pg_ptr->RLatch() / WLatch(), line 203 / 209, and the guard the call returns
LiveLatch(t) ==
  /\ ~aborted
  /\ th[t].pc = "latch"
  /\ IF th[t].op = "FetchPageWrite" THEN CanWLatch(latch, th[t].pending)
     ELSE CanRLatch(latch, th[t].pending)
  /\ latch' = IF th[t].op = "FetchPageWrite" THEN WLatch(latch, th[t].pending)
              ELSE RLatch(latch, th[t].pending)
  /\ guards' = [guards EXCEPT ![t] =
                  MakeGuard(IF th[t].op = "FetchPageWrite" THEN "write"
                            ELSE "read", th[t].pending)]
  /\ th' = [th EXCEPT ![t].pc = "held", ![t].pending = NoFrame]
  /\ UNCHANGED <<bpm, aborted>>
  /\ LiveStep

\* ReadPageGuard::Drop / WritePageGuard::Drop, line 66 / 87:
\* guard.bpm_->UnpinPage(guard.PageId(), guard.is_dirty_)
LiveDropUnpin(t) ==
  /\ ~aborted
  /\ th[t].pc = "held"
  /\ bpm' = UnpinPage(bpm, PageId(bpm, guards[t]), guards[t].is_dirty_).bpm
  /\ th' = [th EXCEPT ![t].pc = "unpinned"]
  /\ UNCHANGED <<latch, guards, aborted>>
  /\ LiveStep

\* ReadPageGuard::Drop / WritePageGuard::Drop, lines 67-71 / 88-92:
\* guard.page_->RUnlatch() / WUnlatch(), and the guard is emptied
LiveDropUnlatch(t) ==
  /\ ~aborted
  /\ th[t].pc = "unpinned"
  /\ latch' = IF guards[t].kind = "write" THEN WUnlatch(latch, guards[t].page_)
              ELSE RUnlatch(latch, guards[t].page_)
  /\ guards' = [guards EXCEPT ![t] = NoGuard]
  /\ th' = [th EXCEPT ![t] = IdleThread]
  /\ UNCHANGED <<bpm, aborted>>
  /\ LiveStep

\* ------------------------------------------------------------------------
\* State after construction and the calls of the clients
\* ------------------------------------------------------------------------
\* ------------------------------------------------------------------------
\* A client that calls an LRUKReplacer directly
\* ------------------------------------------------------------------------
\* the frame ids the client passes: 0 .. num_frames - 1
RepFrames == 0..(ReplacerFrames - 1)

\* LRUKReplacer(ReplacerFrames, k) for a k of ks; no call was made
RepInit(ks) ==
  /\ rep \in {ReplacerInit(ReplacerFrames, k) : k \in ks}
  /\ rep_hist = [f \in RepFrames |-> <<>>]
  /\ rep_clock = 0
  /\ rep_out = NoFrame
  /\ rep_last = [op |-> "none", ok |-> FALSE, before |-> rep,
                 hist |-> rep_hist, out |-> rep_out]

\* what the last call was and the state it started from
RepCalled(op, ok) ==
  rep_last' = [op |-> op, ok |-> ok, before |-> rep, hist |-> rep_hist,
               out |-> rep_out]

\* replacer.RecordAccess(f)
RepRecordAccess ==
  \E f \in RepFrames :
    /\ ~rep.ensure_failed_
    /\ rep_clock < MaxAccesses
    /\ rep' = RecordAccess(rep, f)
    /\ rep_clock' = rep_clock + 1
    /\ rep_hist' = [rep_hist EXCEPT ![f] = Append(@, rep_clock + 1)]
    /\ RepCalled("RecordAccess", TRUE)
    /\ UNCHANGED rep_out

\* replacer.SetEvictable(f, set_evictable)
RepSetEvictable ==
  \E f \in RepFrames, set_evictable \in BOOLEAN :
    /\ ~rep.ensure_failed_
    /\ rep' = SetEvictable(rep, f, set_evictable)
    /\ RepCalled("SetEvictable", TRUE)
    /\ UNCHANGED <<rep_hist, rep_clock, rep_out>>

\* frame_id_t out; replacer.Evict(&out): the victim is written to out when
\* Evict returns true, and its history is gone with its node
RepEvict ==
  /\ ~rep.ensure_failed_
  /\ \E e \in {Evict(rep)} :
       /\ rep' = e.r
       /\ rep_out' = IF e.ok THEN e.frame_id ELSE rep_out
       /\ rep_hist' = IF e.ok THEN [rep_hist EXCEPT ![e.frame_id] = <<>>]
                      ELSE rep_hist
       /\ RepCalled("Evict", e.ok)
  /\ UNCHANGED rep_clock

\* replacer.Remove(f); BUSTUB_ENSURE throws on a frame that is tracked and
\* not evictable
RepRemove ==
  \E f \in RepFrames :
    /\ ~rep.ensure_failed_
    /\ rep' = ReplacerRemove(rep, f)
    /\ rep_hist' = IF f \in DOMAIN rep.node_store_
                      /\ f \notin DOMAIN rep'.node_store_
                   THEN [rep_hist EXCEPT ![f] = <<>>] ELSE rep_hist
    /\ RepCalled("Remove", ~rep'.ensure_failed_)
    /\ UNCHANGED <<rep_clock, rep_out>>

Init ==
  TrieInit /\ PoolInit(PoolSize) /\ GuardInit /\ HTInit /\ RepInit({K})

Next ==
  \/ CallNewPage /\ UNCHANGED <<trieVars, guardVars, htVars, repVars>>
  \/ CallFetchPage /\ UNCHANGED <<trieVars, guardVars, htVars, repVars>>
  \/ CallWriteData /\ UNCHANGED <<trieVars, guardVars, htVars, repVars>>
  \/ CallUnpinPage /\ UNCHANGED <<trieVars, guardVars, htVars, repVars>>
  \/ CallFlushPage /\ UNCHANGED <<trieVars, guardVars, htVars, repVars>>
  \/ CallFlushAllPages /\ UNCHANGED <<trieVars, guardVars, htVars, repVars>>
  \/ CallDeletePage /\ UNCHANGED <<trieVars, guardVars, htVars, repVars>>

\* ------------------------------------------------------------------------
\* Specifications
\* ------------------------------------------------------------------------
vars == <<trieVars, bpmVars, guardVars, htVars, repVars>>

\* the buffer pool manager under a client that pins, writes and unpins pages
Spec == Init /\ [][Next]_vars

\* the persistent trie under Put and Remove calls
TrieSpecNext ==
  \/ TriePut /\ UNCHANGED <<bpmVars, guardVars, htVars, repVars>>
  \/ TrieRemove /\ UNCHANGED <<bpmVars, guardVars, htVars, repVars>>

SpecTrie == Init /\ [][TrieSpecNext]_vars

\* the buffer pool manager under a client that holds guards and raw pins
GuardSpecNext ==
  \/ CallNewPage /\ UNCHANGED <<trieVars, guardVars, htVars, repVars>>
  \/ CallFetchPage /\ UNCHANGED <<trieVars, guardVars, htVars, repVars>>
  \/ CallUnpinPage /\ UNCHANGED <<trieVars, guardVars, htVars, repVars>>
  \/ GAdopt /\ UNCHANGED <<trieVars, htVars, repVars>>
  \/ GNewPageGuarded /\ UNCHANGED <<trieVars, htVars, repVars>>
  \/ GFetchPageBasic /\ UNCHANGED <<trieVars, htVars, repVars>>
  \/ GFetchPageRead /\ UNCHANGED <<trieVars, htVars, repVars>>
  \/ GFetchPageWrite /\ UNCHANGED <<trieVars, htVars, repVars>>
  \/ GUpgradeRead /\ UNCHANGED <<trieVars, htVars, repVars>>
  \/ GUpgradeWrite /\ UNCHANGED <<trieVars, htVars, repVars>>
  \/ GDrop /\ UNCHANGED <<trieVars, htVars, repVars>>
  \/ GDestroy /\ UNCHANGED <<trieVars, htVars, repVars>>
  \/ GMoveConstruct /\ UNCHANGED <<trieVars, htVars, repVars>>
  \/ GMoveAssign /\ UNCHANGED <<trieVars, htVars, repVars>>

SpecGuard == Init /\ [][GuardSpecNext]_vars

\* the buffer pool manager under a client that holds guards, writes through
\* them and upgrades them
GuardDirtyNext ==
  \/ GNewPageGuarded /\ UNCHANGED <<trieVars, htVars, repVars>>
  \/ GFetchPageBasic /\ UNCHANGED <<trieVars, htVars, repVars>>
  \/ GAsMut /\ UNCHANGED <<trieVars, htVars, repVars>>
  \/ GUpgradeRead /\ UNCHANGED <<trieVars, htVars, repVars>>
  \/ GUpgradeWrite /\ UNCHANGED <<trieVars, htVars, repVars>>
  \/ GDrop /\ UNCHANGED <<trieVars, htVars, repVars>>
  \/ GDestroy /\ UNCHANGED <<trieVars, htVars, repVars>>

SpecGuardDirty == Init /\ [][GuardDirtyNext]_vars

\* the buffer pool manager under threads that fetch pages through read and
\* write guards and drop them, any thread taking the next step
GuardLiveNext ==
  \E t \in LiveThreads :
    \/ LiveNewPageGuarded(t) /\ UNCHANGED <<trieVars, repVars>>
    \/ LiveDropBasic(t) /\ UNCHANGED <<trieVars, repVars>>
    \/ LiveFetchPage(t) /\ UNCHANGED <<trieVars, repVars>>
    \/ LiveLatch(t) /\ UNCHANGED <<trieVars, repVars>>
    \/ LiveDropUnpin(t) /\ UNCHANGED <<trieVars, repVars>>
    \/ LiveDropUnlatch(t) /\ UNCHANGED <<trieVars, repVars>>

SpecGuardLive == Init /\ [][GuardLiveNext]_vars

\* the state after construction under the hash table
HTSpecInit ==
  TrieInit /\ PoolInit(HTPoolSize) /\ GuardInit /\ HTInit /\ RepInit({K})

\* the hash table under the calls of one thread, one call after the other
HTSpecNext ==
  \/ HTConstruct({BucketMaxSize}) /\ UNCHANGED <<trieVars, repVars>>
  \/ HTCall(1, {1}, HTKeys, FALSE) /\ UNCHANGED <<trieVars, repVars>>
  \/ HTLatchHeader(1) /\ UNCHANGED <<trieVars, repVars>>
  \/ HTLatchDirectory(1) /\ UNCHANGED <<trieVars, repVars>>
  \/ HTLatchBucket(1) /\ UNCHANGED <<trieVars, repVars>>
  \/ HTLatchNewDirectory(1) /\ UNCHANGED <<trieVars, repVars>>
  \/ HTLatchNewBucket(1) /\ UNCHANGED <<trieVars, repVars>>
  \/ HTLatchSplit(1) /\ UNCHANGED <<trieVars, repVars>>
  \/ HTLatchMerge(1) /\ UNCHANGED <<trieVars, repVars>>
  \/ HTReturn(1) /\ UNCHANGED <<trieVars, repVars>>

SpecHT == HTSpecInit /\ [][HTSpecNext]_vars

\* the state after construction under a hash table whose pool has a frame
\* for every page: no page is evicted
HTRoomyInit ==
  TrieInit /\ PoolInit(HTMaxPages) /\ GuardInit /\ HTInit /\ RepInit({K})

\* a table of bucket_max_size BucketMaxSize or LargeBucketMaxSize under the
\* calls of one thread, one call after the other
HTRoomyNext ==
  \/ HTConstruct({BucketMaxSize, LargeBucketMaxSize})
       /\ UNCHANGED <<trieVars, repVars>>
  \/ HTCall(1, {1}, HTKeys, FALSE) /\ UNCHANGED <<trieVars, repVars>>
  \/ HTLatchHeader(1) /\ UNCHANGED <<trieVars, repVars>>
  \/ HTLatchDirectory(1) /\ UNCHANGED <<trieVars, repVars>>
  \/ HTLatchBucket(1) /\ UNCHANGED <<trieVars, repVars>>
  \/ HTLatchNewDirectory(1) /\ UNCHANGED <<trieVars, repVars>>
  \/ HTLatchNewBucket(1) /\ UNCHANGED <<trieVars, repVars>>
  \/ HTLatchSplit(1) /\ UNCHANGED <<trieVars, repVars>>
  \/ HTLatchMerge(1) /\ UNCHANGED <<trieVars, repVars>>
  \/ HTReturn(1) /\ UNCHANGED <<trieVars, repVars>>

SpecHTRoomy == HTRoomyInit /\ [][HTRoomyNext]_vars

\* the state after construction under the hash table that concurrent
\* threads call
HTLiveInit ==
  /\ TrieInit /\ PoolInit(HTLivePoolSize) /\ GuardInit /\ HTInit
  /\ RepInit({K})

\* the hash table under the calls of concurrent threads, MaxCalls calls a
\* thread
HTLiveNext ==
  \/ HTConstruct({BucketMaxSize}) /\ UNCHANGED <<trieVars, repVars>>
  \/ \E t \in Threads :
       HTCall(t, Threads, 0..MaxLiveKey, TRUE)
         /\ UNCHANGED <<trieVars, repVars>>
  \/ \E t \in Threads : HTLatchHeader(t) /\ UNCHANGED <<trieVars, repVars>>
  \/ \E t \in Threads : HTLatchDirectory(t) /\ UNCHANGED <<trieVars, repVars>>
  \/ \E t \in Threads : HTLatchBucket(t) /\ UNCHANGED <<trieVars, repVars>>
  \/ \E t \in Threads : HTLatchNewDirectory(t) /\ UNCHANGED <<trieVars, repVars>>
  \/ \E t \in Threads : HTLatchNewBucket(t) /\ UNCHANGED <<trieVars, repVars>>
  \/ \E t \in Threads : HTLatchSplit(t) /\ UNCHANGED <<trieVars, repVars>>
  \/ \E t \in Threads : HTLatchMerge(t) /\ UNCHANGED <<trieVars, repVars>>
  \/ \E t \in Threads : HTReturn(t) /\ UNCHANGED <<trieVars, repVars>>

\* thread t waits for a frame latch that it can have
HTCanLatch(t) ==
  /\ HTRunning
  /\ th[t].pc \notin {"idle", "returned"}
  /\ IF \/ th[t].pc = "header" /\ th[t].op # "Insert"
        \/ th[t].pc \in {"directory", "bucket"} /\ th[t].op = "GetValue"
     THEN CanRLatch(latch, th[t].pending)
     ELSE CanWLatch(latch, th[t].pending)

\* the step of thread t that takes the frame latch it waits for
HTLatch(t) ==
  /\ \/ HTLatchHeader(t)
     \/ HTLatchDirectory(t)
     \/ HTLatchBucket(t)
     \/ HTLatchNewDirectory(t)
     \/ HTLatchNewBucket(t)
     \/ HTLatchSplit(t)
     \/ HTLatchMerge(t)
  /\ UNCHANGED <<trieVars, repVars>>

\* the caller of thread t takes the result of its call
HTCaller(t) == HTReturn(t) /\ UNCHANGED <<trieVars, repVars>>

\* the scheduler is fair: a caller goes on after its call, and a thread
\* that waits for a frame latch gets it when the latch stays free. HTLatch(t)
\* is enabled exactly when HTCanLatch(t) holds, so the second condition is
\* weak fairness of HTLatch(t)
HTFair ==
  \A t \in Threads :
    /\ WF_vars(HTCaller(t))
    /\ []<>(~HTCanLatch(t)) \/ []<><<HTLatch(t)>>_vars

SpecHTLive == HTLiveInit /\ [][HTLiveNext]_vars /\ HTFair

\* the state after construction of a replacer with k in 2 .. MaxK
RepSpecInit ==
  TrieInit /\ PoolInit(PoolSize) /\ GuardInit /\ HTInit /\ RepInit(2..MaxK)

\* the replacer under the calls of one client
RepSpecNext ==
  \/ RepRecordAccess /\ UNCHANGED <<trieVars, bpmVars, guardVars, htVars>>
  \/ RepSetEvictable /\ UNCHANGED <<trieVars, bpmVars, guardVars, htVars>>
  \/ RepEvict /\ UNCHANGED <<trieVars, bpmVars, guardVars, htVars>>
  \/ RepRemove /\ UNCHANGED <<trieVars, bpmVars, guardVars, htVars>>

SpecReplacer == RepSpecInit /\ [][RepSpecNext]_vars

\* C8: after t.Remove(k) the key k answers null and every other key answers
\* as it did in t
C8_RemoveOnlyRemovesKey ==
  trie_last.op = "remove" =>
    LET new == roots[Len(roots)]
    IN /\ \A T \in Types : Get(heap, new, trie_last.key, T) = NoValue
       /\ \A k \in Keys \ {trie_last.key} :
            Lookups(heap, new)[k] = trie_last.before[k]

\* C9: t.Put(k, v).Get(k) is v and every other key answers as it did in t
C9_PutGet ==
  trie_last.op = "put" =>
    LET new == roots[Len(roots)]
    IN /\ Get(heap, new, trie_last.key, trie_last.value.ty) = trie_last.value
       /\ \A k \in Keys \ {trie_last.key} :
            Lookups(heap, new)[k] = trie_last.before[k]

\* C9 witness: a Put of a key that is a prefix of a stored key, over a trie
\* that holds another key
C9_Witness ==
  /\ trie_last.op = "put"
  /\ trie_last.key = <<"a">>
  /\ trie_last.before[<<"a", "b">>]["u32"] # NoValue
  /\ trie_last.before[<<>>]["u64"] # NoValue
  /\ trie_last.value.ty = "u32"

\* C10: every trie built so far answers every key as when it was built, and
\* no node reachable from its root has changed
C10_Immutable ==
  \A i \in 1..Len(roots) :
    /\ Lookups(heap, roots[i]) = frozen[i].lookups
    /\ \A n \in DOMAIN frozen[i].nodes : heap[n] = frozen[i].nodes[n]

\* C10 witness: a Put and a Remove were both computed from the same
\* non-empty trie
C10_Witness ==
  /\ Len(roots) >= 4
  /\ trie_last.op = "remove"
  /\ trie_last.base = 2
  /\ roots[2] # NullPtr
  /\ roots[Len(roots)] # NullPtr
  /\ frozen[3].lookups # frozen[2].lookups
\* ------------------------------------------------------------------------
\* Properties of the buffer pool manager (Spec)
\* ------------------------------------------------------------------------
\* the calls that need a frame in the current state, with their results:
\* NewPage, and FetchPage of each allocated page id that is not resident
FrameCalls ==
  (IF bpm.next_page_id_ < MaxPages THEN {NewPage(bpm)} ELSE {})
  \cup {FetchPage(bpm, p) : p \in {q \in PageIds : q < bpm.next_page_id_
                                                  /\ ~Resident(bpm, q)}}

\* every frame is pinned and none is free
AllPinned(b) ==
  /\ b.free_list_ = <<>>
  /\ \A f \in DOMAIN b.pages_ : b.pages_[f].pin_count_ > 0

\* in every reachable state, a call that evicts a dirty victim leaves the
\* victim's bytes on disk and the victim's frame reset for the new page
EvictionWritesBack ==
  \A r \in FrameCalls :
    r.victim.is_dirty_ =>
      /\ r.bpm.disk_[r.victim.page_id_] = r.victim.data_
      /\ r.victim.page_id_ \notin DOMAIN r.bpm.page_table_
      /\ r.bpm.pages_[r.page].page_id_ # r.victim.page_id_
      /\ ~r.bpm.pages_[r.page].is_dirty_

C2_NullIffAllPinned ==
  \A r \in FrameCalls :
    /\ r.page = NoFrame <=> AllPinned(bpm)
    /\ r.page = NoFrame => r.bpm = bpm
    /\ r.page # NoFrame =>
         /\ r.bpm.pages_[r.page].pin_count_ = 1
         /\ r.page \in DOMAIN r.bpm.replacer_.node_store_
         /\ ~r.bpm.replacer_.node_store_[r.page].is_evictable_

\* NewPage has just returned null with every frame pinned and nothing changed
\* since: the state before the call and after it
C2_Witness ==
  /\ bpm_last.op = "NewPage"
  /\ bpm_last.page = NoFrame
  /\ AllPinned(bpm)
  /\ \A r \in FrameCalls : r.page = NoFrame /\ r.bpm = bpm

\* ------------------------------------------------------------------------
\* Properties of the page guards (SpecGuard)
\* ------------------------------------------------------------------------
\* the raw pins on the page held in frame f
RawPinsOn(f) ==
  IF bpm.pages_[f].page_id_ \in PageIds THEN raw_pins[bpm.pages_[f].page_id_]
  ELSE 0

\* the allocated page ids a guard may be fetched for in the current state
Fetchable(write) ==
  {p \in PageIds :
     /\ p < bpm.next_page_id_
     /\ LET f == FetchPage(bpm, p).page
        IN /\ f # NoFrame
           /\ IF write THEN CanWLatch(latch, f) ELSE CanRLatch(latch, f)}

\* the pin count of page p, 0 when p is not resident
PinCountOf(b, p) ==
  IF Resident(b, p) THEN b.pages_[FrameOf(b, p)].pin_count_ ELSE 0

\* C3: outside guard operations the pin count of every frame is the number
\* of live guards that hold its page plus the raw pins not yet released (a
\* pin handed to a guard counts for the guard); FetchPageRead and
\* FetchPageWrite raise the pin count of the page by exactly 1 and dropping
\* or destroying a Read / Write guard lowers it by exactly 1.
C3_PinCountIsHolders ==
  /\ \A f \in Frames :
       bpm.pages_[f].pin_count_ = Cardinality(Holders(f)) + RawPinsOn(f)
  /\ \A p \in PageIds : ~Resident(bpm, p) => raw_pins[p] = 0
  /\ \A p \in Fetchable(FALSE) :
       LET r == FetchPageRead(bpm, latch, p)
       IN /\ ~r.aborted
          /\ r.guard.kind = "read"
          /\ r.bpm.pages_[r.guard.page_].page_id_ = p
          /\ PinCountOf(r.bpm, p) = PinCountOf(bpm, p) + 1
  /\ \A p \in Fetchable(TRUE) :
       LET r == FetchPageWrite(bpm, latch, p)
       IN /\ ~r.aborted
          /\ r.guard.kind = "write"
          /\ r.bpm.pages_[r.guard.page_].page_id_ = p
          /\ PinCountOf(r.bpm, p) = PinCountOf(bpm, p) + 1
  /\ \A g \in GuardIds :
       (guards[g].kind \in {"read", "write"} /\ guards[g].page_ # NoFrame) =>
         LET f == guards[g].page_
             r == Drop(bpm, latch, guards[g])
         IN /\ ~r.aborted
            /\ r.guard.page_ = NoFrame
            /\ r.bpm.pages_[f].pin_count_ = bpm.pages_[f].pin_count_ - 1

\* a page pinned once by the caller and once by a Read guard, next to a Read
\* guard that was dropped or moved from
C3_Witness ==
  /\ ~aborted
  /\ \E g \in GuardIds :
       /\ guards[g].kind = "read"
       /\ guards[g].page_ # NoFrame
       /\ bpm.pages_[guards[g].page_].pin_count_ = 2
       /\ RawPinsOn(guards[g].page_) = 1
  /\ \E g \in GuardIds : guards[g].kind = "read" /\ guards[g].page_ = NoFrame

\* C6 as stated: when every frame is pinned, NewPageGuarded, FetchPageBasic,
\* FetchPageRead and FetchPageWrite return an empty guard without aborting
\* and without taking a pin or a latch, and dropping or destroying a guard
\* built on a null frame unpins and unlatches nothing.
C6_EmptyGuardOnNullFrame ==
  /\ ~aborted
  /\ AllPinned(bpm) =>
       \A r \in
          (IF bpm.next_page_id_ < MaxPages
           THEN {NewPageGuarded(bpm, latch)} ELSE {})
          \cup UNION {{FetchPageBasic(bpm, latch, p),
                       FetchPageRead(bpm, latch, p),
                       FetchPageWrite(bpm, latch, p)} :
                      p \in {q \in PageIds : q < bpm.next_page_id_
                                            /\ ~Resident(bpm, q)}} :
         /\ ~r.aborted
         /\ r.bpm = bpm
         /\ r.latch = latch
         /\ r.guard.page_ = NoFrame
  /\ \A g \in GuardIds :
       (guards[g].kind # "none" /\ guards[g].bpm_ /\ guards[g].page_ = NoFrame)
         => LET r == Drop(bpm, latch, guards[g])
            IN ~r.aborted /\ r.bpm = bpm /\ r.latch = latch

\* ------------------------------------------------------------------------
\* Properties of the disk extendible hash table
\* ------------------------------------------------------------------------
\* the calls that have just returned
Returned(op) == {t \in Threads : th[t].pc = "returned" /\ th[t].op = op}

\* C4: the table behaves as a map with unique keys: GetValue(k) returns true
\* with exactly the value of the most recent successful Insert(k, v) that no
\* successful Remove(k) followed, and false with no value otherwise; Insert
\* of a key that is there returns false; Remove of a key that is not there
\* returns false and Remove of a key that is there returns true
C4_MapWithUniqueKeys ==
  /\ \A t \in Returned("GetValue") :
       IF th[t].before = NoEntry
       THEN ~th[t].result /\ th[t].values = <<>>
       ELSE th[t].result /\ th[t].values = <<th[t].before>>
  /\ \A t \in Returned("Insert") : th[t].before # NoEntry => ~th[t].result
  /\ \A t \in Returned("Remove") : th[t].result = (th[t].before # NoEntry)

\* C5: every read and write of a header, directory or bucket page happens
\* while the thread holds a live guard on the page (with the write latch for
\* a write)
C5_AccessUnderGuard == ~unguarded

\* the threads inside a call
InCall == {t \in Threads : th[t].pc \notin {"idle", "returned"}}

\* a thread that waits for a frame latch holds the guards of the pages
\* before it only: none for the header page, none but header_guard for the
\* directory page, no bucket_guard for a bucket page
LatchOrder ==
  \A t \in Threads :
    /\ th[t].pc = "header" =>
         /\ th[t].header_guard = NoGuard
         /\ th[t].directory_guard = NoGuard
         /\ th[t].bucket_guard = NoGuard
    /\ th[t].pc = "directory" =>
         /\ th[t].directory_guard = NoGuard
         /\ th[t].bucket_guard = NoGuard
    /\ th[t].pc \in {"bucket", "merge"} => th[t].bucket_guard = NoGuard

\* C7: under fair scheduling every GetValue, Insert and Remove call of
\* concurrent threads on one table returns in the end, when the buffer pool
\* manager always has a frame: the latches are taken in the order header,
\* directory, bucket, and no thread waits for ever
C7_EveryCallReturns ==
  /\ []LatchOrder
  /\ \A t \in Threads : (t \in InCall) ~> (th[t].pc = "returned")

\* two threads are inside calls at once, and one of them waits for the
\* latch of the directory page that the other one holds
C7_Witness ==
  \E t \in InCall, u \in InCall :
    /\ t # u
    /\ th[t].pc = "directory"
    /\ th[u].directory_guard.page_ = th[t].pending
    /\ ~CanWLatch(latch, th[t].pending)
    /\ ~aborted

\* ------------------------------------------------------------------------
\* Type-safe lookup of the trie (SpecTrie)
\* ------------------------------------------------------------------------
\* the node at the end of the path of key below root, found from the last
\* character back; NullPtr when the path is not there
RECURSIVE NodeAt(_, _, _)
NodeAt(h, root, key) ==
  IF root = NullPtr THEN NullPtr
  ELSE IF key = <<>> THEN root
  ELSE LET parent == NodeAt(h, root, SubSeq(key, 1, Len(key) - 1))
           c == key[Len(key)]
       IN IF parent = NullPtr THEN NullPtr
          ELSE IF c \in DOMAIN h[parent].children_
               THEN h[parent].children_[c]
               ELSE NullPtr

\* C11: Get<T>(key) is null when no node is at the path of key, when the
\* node there holds no value, and when the value there was put with another
\* type than T; it is the stored value exactly when the stored type is T.
\* In particular Put<A>(k, a).Get<B>(k) is null for B # A
C11_TypeSafeGet ==
  /\ \A i \in 1..Len(roots), k \in Keys, T \in Types :
       LET n == NodeAt(heap, roots[i], k)
           got == Get(heap, roots[i], k, T)
       IN IF n = NullPtr THEN got = NoValue
          ELSE IF ~heap[n].is_value_node_ THEN got = NoValue
          ELSE IF heap[n].value_.ty # T THEN got = NoValue
          ELSE got = heap[n].value_ /\ got # NoValue
  /\ trie_last.op = "put" =>
       \A T \in Types \ {trie_last.value.ty} :
         Get(heap, roots[Len(roots)], trie_last.key, T) = NoValue

\* C11 witness: one trie holds a value of type u32 at "ab" below the node of
\* "a", which holds no value, has no node for "b", and holds a value of type
\* u64 at the root
C11_Witness ==
  \E i \in 1..Len(roots) :
    /\ NodeAt(heap, roots[i], <<"a", "b">>) # NullPtr
    /\ heap[NodeAt(heap, roots[i], <<"a", "b">>)].value_.ty = "u32"
    /\ ~heap[NodeAt(heap, roots[i], <<"a">>)].is_value_node_
    /\ NodeAt(heap, roots[i], <<"b">>) = NullPtr
    /\ heap[roots[i]].value_.ty = "u64"
    /\ Get(heap, roots[i], <<"a", "b">>, "u64") = NoValue
    /\ Get(heap, roots[i], <<>>, "u32") = NoValue
\* ------------------------------------------------------------------------
\* Properties of the LRU-K replacer (SpecReplacer). They look at the state
\* an Evict call started from (rep_last.before, rep_last.hist)
\* ------------------------------------------------------------------------
\* the evictable frames before the last call
WasEvictable ==
  {f \in DOMAIN rep_last.before.node_store_ :
     rep_last.before.node_store_[f].is_evictable_}

\* the evictable frames with fewer than k and with k or more recorded
\* accesses before the last call
WasYoung == {f \in WasEvictable : Len(rep_last.hist[f]) < rep_last.before.k_}

WasMature == WasEvictable \ WasYoung

\* the time of the most recent and of the k-th most recent recorded access
\* of frame f before the last call
LastAccess(f) == rep_last.hist[f][Len(rep_last.hist[f])]

KthAccess(f) ==
  rep_last.hist[f][Len(rep_last.hist[f]) - rep_last.before.k_ + 1]

\* the last call was Evict
Evicted == rep_last.op = "Evict"

\* C12: when two frames A and B are the only evictable frames with fewer
\* than k recorded accesses and the most recent access of A is later than
\* the most recent access of B, Evict returns B (for every k >= 2)
C12_YoungLeastRecent ==
  Evicted =>
    \A a \in WasYoung, b \in WasYoung :
      (WasYoung = {a, b} /\ LastAccess(a) > LastAccess(b)) =>
        rep_last.ok /\ rep_out = b

\* C13: Evict returns a frame with k or more recorded accesses only when no
\* evictable frame has fewer than k, and then it is the evictable frame
\* whose most recent access is the oldest
C13_MatureOnlyWithoutYoung ==
  (Evicted /\ rep_last.ok) =>
    /\ WasYoung # {} => rep_out \in WasYoung
    /\ WasYoung = {} =>
         /\ rep_out \in WasMature
         /\ \A g \in WasMature : LastAccess(rep_out) <= LastAccess(g)

\* C13 witness: Evict has chosen among two evictable frames with k or more
\* accesses while a frame with fewer than k accesses was tracked and not
\* evictable
C13_Witness ==
  /\ Evicted /\ rep_last.ok
  /\ WasYoung = {}
  /\ Cardinality(WasMature) >= 2
  /\ \E f \in DOMAIN rep_last.before.node_store_ :
       /\ ~rep_last.before.node_store_[f].is_evictable_
       /\ Len(rep_last.hist[f]) < rep_last.before.k_

\* C14: when every evictable frame has k or more recorded accesses, Evict
\* returns the one whose k-th most recent access is the oldest
C14_LargestKDistance ==
  (Evicted /\ WasYoung = {} /\ WasMature # {}) =>
    /\ rep_last.ok
    /\ \A g \in WasMature : KthAccess(rep_out) <= KthAccess(g)

\* C15: Evict returns false exactly when Size() is 0, which is when no
\* tracked frame is evictable; a false return changes neither the out
\* parameter nor the replacer; a true return removes the node and the
\* history of the victim, leaves the other nodes as they were and lowers
\* Size() by 1
C15_EvictFalseIffEmpty ==
  /\ ReplacerSize(rep) = Cardinality({f \in DOMAIN rep.node_store_ :
                                        rep.node_store_[f].is_evictable_})
  /\ Evicted =>
       /\ rep_last.ok = (ReplacerSize(rep_last.before) # 0)
       /\ rep_last.ok = (WasEvictable # {})
       /\ ~rep_last.ok => rep = rep_last.before /\ rep_out = rep_last.out
       /\ rep_last.ok =>
            /\ rep_out \in WasEvictable
            /\ DOMAIN rep.node_store_
                 = DOMAIN rep_last.before.node_store_ \ {rep_out}
            /\ \A f \in DOMAIN rep.node_store_ :
                 rep.node_store_[f] = rep_last.before.node_store_[f]
            /\ \A i \in 1..Len(rep.less_k_list_) :
                 rep.less_k_list_[i] # rep_out
            /\ \A i \in 1..Len(rep.more_k_list_) :
                 rep.more_k_list_[i] # rep_out
            /\ ReplacerSize(rep) = ReplacerSize(rep_last.before) - 1
            /\ RecordAccess(rep, rep_out).node_store_[rep_out].k_ = 1

\* C15 witness: Evict has returned false on a replacer that tracks every
\* frame, after SetEvictable(f, false) on frames that were evictable, with a
\* victim of an earlier Evict still in the out parameter
C15_Witness ==
  /\ Evicted /\ ~rep_last.ok
  /\ DOMAIN rep.node_store_ = RepFrames
  /\ rep_out \in RepFrames
  /\ rep.more_k_list_ # <<>>
  /\ rep.less_k_list_ # <<>>


\* ------------------------------------------------------------------------
\* The directory and the buckets of the table between calls
\* ------------------------------------------------------------------------
\* an Insert or a Remove has just returned
AfterUpdate == Returned("Insert") \cup Returned("Remove") # {}

\* C16: after every Insert and every Remove, two directory slots below
\* 2^global_depth hold the same bucket page id if and only if they have the
\* same local depth d and agree on their low d bits
C16_SlotsShareBucket ==
  AfterUpdate =>
    \A dp \in TableDirectories : \A i, j \in LiveSlots(dp) :
      (dp.bucket_page_ids_[i] = dp.bucket_page_ids_[j])
        <=> /\ dp.local_depths_[i] = dp.local_depths_[j]
            /\ BitAnd(i, GetLocalDepthMask(dp, i))
                 = BitAnd(j, GetLocalDepthMask(dp, i))

\* an Insert has split a bucket twice: the directory has global depth 2,
\* two slots share a bucket and two slots have buckets of their own
C16_Witness ==
  /\ Returned("Insert") # {}
  /\ \E dp \in TableDirectories :
       /\ dp.global_depth_ = 2
       /\ \E i, j \in LiveSlots(dp) :
            i # j /\ dp.bucket_page_ids_[i] = dp.bucket_page_ids_[j]
       /\ \E i, j \in LiveSlots(dp) :
            dp.local_depths_[i] = 2 /\ dp.local_depths_[j] = 1


\* the keys stored in the bucket page that slot i of directory dp points to
KeysAt(dp, i) ==
  LET bp == StoredPage(dp.bucket_page_ids_[i], "bucket")
  IN {bp.array_[n].key : n \in 1..bp.size_}

\* C17: after every Insert and every Remove, every key k stored in a bucket
\* page that directory slot i below 2^global_depth points to with local
\* depth d satisfies hash(k) mod 2^d = i mod 2^d, so that each stored key
\* sits in the bucket that HashToBucketIndex(hash(k)) selects
C17_KeysInTheirBucket ==
  AfterUpdate =>
    \A dp \in TableDirectories : \A i \in LiveSlots(dp) :
      \A k \in KeysAt(dp, i) :
        /\ BitAnd(Hash(k), GetLocalDepthMask(dp, i))
             = BitAnd(i, GetLocalDepthMask(dp, i))
        /\ dp.bucket_page_ids_[HashToBucketIndex(dp, Hash(k))]
             = dp.bucket_page_ids_[i]


\* C18: in every state reached by Insert and Remove calls, every directory
\* slot i below 2^global_depth has local_depth[i] <= global_depth, and
\* 0 <= global_depth <= directory_max_depth
C18_DepthsBounded ==
  \A dp \in TableDirectories :
    /\ \A i \in LiveSlots(dp) : dp.local_depths_[i] <= dp.global_depth_
    /\ dp.global_depth_ <= dp.max_depth_
    /\ dp.max_depth_ = DirectoryMaxDepth
    /\ dp.global_depth_ >= 0

\* a Remove has emptied a table that had split a bucket (a page beyond the
\* header, the directory and the first bucket was allocated): the merge and
\* the shrink loop have brought the directory back to global depth 0
C18_Witness ==
  \E t \in Returned("Remove") :
    /\ th[t].result
    /\ bpm.next_page_id_ > 3
    /\ \E dp \in TableDirectories : dp.global_depth_ = 0


\* the keys stored when the call of thread t began that agree with its key
\* on the low directory_max_depth bits of the hash
Colliding(t) ==
  {k \in HTKeys :
     /\ th[t].stored[k] # NoEntry
     /\ BitAnd(Hash(k), Bit(DirectoryMaxDepth) - 1)
          = BitAnd(Hash(th[t].key), Bit(DirectoryMaxDepth) - 1)}

\* the stored pairs are what they were when the call of thread t began
PairsKept(t) == \A k \in HTKeys : Retrievable[k] = th[t].stored[k]

StoredKeys(t) == {k \in HTKeys : th[t].stored[k] # NoEntry}

\* the slot of key in the directory page dp
SlotOf(dp, key) == HashToBucketIndex(dp, Hash(key))

\* the call of thread t began in the state of the scenario before its last
\* Remove: bucket_max_size is 2, the directory has global depth 2, two keys
\* are left, they collide on the low bit of the hash and sit in the two
\* buckets of local depth 2 that a split of their bucket made, the call
\* removes one of them, and the other half of the directory is one bucket
\* of local depth 1
LastOfSplitBucket(t) ==
  /\ th[t].result
  /\ ht.bucket_max_size_ = 2
  /\ th[t].dir.global_depth_ = 2
  /\ Cardinality(StoredKeys(t)) = 2
  /\ th[t].key \in StoredKeys(t)
  /\ \A k \in StoredKeys(t) :
       /\ BitAnd(Hash(k), 1) = BitAnd(Hash(th[t].key), 1)
       /\ th[t].dir.local_depths_[SlotOf(th[t].dir, k)] = 2
       /\ k # th[t].key =>
            SlotOf(th[t].dir, k) # SlotOf(th[t].dir, th[t].key)
  /\ \A i \in LiveSlots(th[t].dir) :
       BitAnd(i, 1) # BitAnd(Hash(th[t].key), 1)
         => th[t].dir.local_depths_[i] = 1

\* the other key is retrievable after the call of thread t with the value it
\* had, and the removed key is gone
OtherKeyKept(t) ==
  \A k \in StoredKeys(t) :
    Retrievable[k] = IF k = th[t].key THEN NoEntry ELSE th[t].stored[k]

\* C20: with bucket_max_size = 2, from the state where three keys that
\* collide on the low bit of the hash were inserted and the directory has
\* global depth 2, removing the two keys that share the split bucket merges
\* the bucket with its split image; global_depth ends at 1 and the remaining
\* key stays retrievable
C20_MergeEndsAtDepthOne ==
  \A t \in Returned("Remove") :
    LastOfSplitBucket(t) =>
      /\ \A dp \in TableDirectories : dp.global_depth_ = 1
      /\ OtherKeyKept(t)

\* C20 as the code has it: the merge leaves one bucket of local depth 1 for
\* the half of the remaining key, the merge loop goes on with the empty
\* bucket of the other half and merges it too, and global_depth ends at 0;
\* the remaining key stays retrievable
C20_MergeEndsAtDepthZero ==
  \A t \in Returned("Remove") :
    LastOfSplitBucket(t) =>
      /\ \A dp \in TableDirectories :
           /\ dp.global_depth_ = 0
           /\ dp.local_depths_[0] = 0
      /\ OtherKeyKept(t)

\* the last Remove of the scenario has returned
C20_Witness == \E t \in Returned("Remove") : LastOfSplitBucket(t)


\* ------------------------------------------------------------------------
\* More properties of the buffer pool manager (Spec)
\* ------------------------------------------------------------------------
\* the resident pages that are dirty and not pinned: DeletePage drops them
DirtyUnpinned ==
  {p \in PageIds : /\ Resident(bpm, p)
                   /\ bpm.pages_[FrameOf(bpm, p)].is_dirty_
                   /\ bpm.pages_[FrameOf(bpm, p)].pin_count_ = 0}

\* C21: a page whose dirty flag is set is never dropped from its frame, by
\* the eviction of NewPage / FetchPage or by DeletePage of an unpinned page,
\* unless its current bytes were first written through the disk scheduler
C21_DirtyNeverDropped ==
  /\ EvictionWritesBack
  /\ \A p \in DirtyUnpinned :
       DeletePage(bpm, p).bpm.disk_[p] = bpm.pages_[FrameOf(bpm, p)].data_

\* C21 as the code has it: the eviction of NewPage / FetchPage writes a
\* dirty victim through the disk scheduler before the frame is reset;
\* DeletePage of a dirty unpinned page resets the frame and puts it on the
\* free list without a write, so the disk keeps the bytes it had
C21_DirtyDroppedByDeleteOnly ==
  /\ EvictionWritesBack
  /\ \A p \in DirtyUnpinned :
       /\ DeletePage(bpm, p).ret
       /\ DeletePage(bpm, p).bpm.disk_ = bpm.disk_
       /\ ~Resident(DeletePage(bpm, p).bpm, p)
       /\ DeletePage(bpm, p).bpm.pages_[FrameOf(bpm, p)] = FreshPage

\* DeletePage has dropped a dirty page whose bytes the disk does not hold
C21_Witness ==
  \E p \in PageIds :
    /\ discarded[p]
    /\ ~Resident(bpm, p)
    /\ bpm.disk_[p] # last_written[p]


\* the replacer tracks frame f as evictable
Evictable(b, f) ==
  /\ f \in DOMAIN b.replacer_.node_store_
  /\ b.replacer_.node_store_[f].is_evictable_

\* C22: after every operation, a frame that holds a resident page has
\* pin_count = 0 if and only if the replacer tracks it with is_evictable =
\* true, and Evict never returns a frame with pin_count > 0
C22_EvictableIffUnpinned ==
  /\ \A p \in DOMAIN bpm.page_table_ :
       (bpm.pages_[FrameOf(bpm, p)].pin_count_ = 0)
         <=> Evictable(bpm, FrameOf(bpm, p))
  /\ Evict(bpm.replacer_).ok =>
       /\ bpm.pages_[Evict(bpm.replacer_).frame_id].pin_count_ = 0
       /\ bpm.pages_[Evict(bpm.replacer_).frame_id].page_id_
            \in DOMAIN bpm.page_table_

\* no frame is free, one resident page is pinned and another is not, and
\* Evict returns a frame
C22_Witness ==
  /\ bpm.free_list_ = <<>>
  /\ \E p, q \in DOMAIN bpm.page_table_ :
       /\ bpm.pages_[FrameOf(bpm, p)].pin_count_ > 0
       /\ bpm.pages_[FrameOf(bpm, q)].pin_count_ = 0
  /\ Evict(bpm.replacer_).ok


\* the frames on the free list, the frames of resident pages that are
\* pinned and the frames of resident pages that are not
FreeFrames(b) == {b.free_list_[i] : i \in 1..Len(b.free_list_)}

PinnedFrames(b) ==
  {f \in DOMAIN b.pages_ :
     /\ \E p \in DOMAIN b.page_table_ : b.page_table_[p] = f
     /\ b.pages_[f].pin_count_ > 0}

UnpinnedFrames(b) ==
  {f \in DOMAIN b.pages_ :
     /\ \E p \in DOMAIN b.page_table_ : b.page_table_[p] = f
     /\ b.pages_[f].pin_count_ = 0}

\* C23: after every operation each frame is in exactly one of three states,
\* on the free list (once), resident and pinned, or resident and not pinned,
\* so that the three counts sum to pool_size; the page table is a one-to-one
\* map between the resident page ids and the frames that are not free, and
\* the page_id of a mapped frame is the key that maps to it
C23_FramePartition ==
  /\ Cardinality(FreeFrames(bpm)) = Len(bpm.free_list_)
  /\ FreeFrames(bpm) \cap (PinnedFrames(bpm) \cup UnpinnedFrames(bpm)) = {}
  /\ FreeFrames(bpm) \cup PinnedFrames(bpm) \cup UnpinnedFrames(bpm)
       = DOMAIN bpm.pages_
  /\ Len(bpm.free_list_) + Cardinality(PinnedFrames(bpm))
       + Cardinality(UnpinnedFrames(bpm)) = bpm.pool_size_
  /\ \A p, q \in DOMAIN bpm.page_table_ :
       bpm.page_table_[p] = bpm.page_table_[q] => p = q
  /\ \A p \in DOMAIN bpm.page_table_ :
       bpm.pages_[bpm.page_table_[p]].page_id_ = p

\* DeletePage has put a frame back on the free list while another frame
\* holds a pinned page
C23_Witness ==
  /\ bpm.free_list_ # <<>>
  /\ bpm.next_page_id_ > Cardinality(DOMAIN bpm.page_table_)
  /\ PinnedFrames(bpm) # {}


\* the pin counts of the frames
PinCounts(b) == [f \in DOMAIN b.pages_ |-> b.pages_[f].pin_count_]

\* the latches after one release of the latch a guard of this kind holds
Unlatched(l, g) ==
  IF g.kind = "read" THEN [l EXCEPT ![g.page_].readers = @ - 1]
  ELSE IF g.kind = "write" THEN [l EXCEPT ![g.page_].writer = FALSE]
  ELSE l

\* a guard that was dropped or moved from
IsEmptyGuard(g) == g.kind # "none" /\ ~g.bpm_ /\ g.page_ = NoFrame

\* C24: the first Drop() of a guard that holds a page does exactly one
\* UnpinPage and, for a read or write guard, exactly one unlatch, and
\* leaves the guard empty; a second Drop(), a Drop() of a moved-from guard
\* and the destructor after a Drop() change nothing
C24_DropIdempotent ==
  ~aborted =>
    \A g \in GuardIds :
      /\ (guards[g].bpm_ /\ guards[g].page_ # NoFrame) =>
           LET r == Drop(bpm, latch, guards[g])
           IN /\ ~r.aborted
              /\ PinCounts(r.bpm)
                   = [PinCounts(bpm) EXCEPT ![guards[g].page_] = @ - 1]
              /\ r.bpm =
                   UnpinPage(bpm, PageId(bpm, guards[g]), guards[g].is_dirty_).bpm
              /\ r.latch = Unlatched(latch, guards[g])
              /\ (guards[g].kind = "read" =>
                    latch[guards[g].page_].readers > 0)
              /\ (guards[g].kind = "write" => latch[guards[g].page_].writer)
              /\ IsEmptyGuard(r.guard)
              /\ Drop(r.bpm, r.latch, r.guard)
                   = GuardResult(r.bpm, r.latch, r.guard, FALSE)
      /\ IsEmptyGuard(guards[g]) =>
           Drop(bpm, latch, guards[g])
             = GuardResult(bpm, latch, guards[g], FALSE)

\* a write guard has been dropped and is still in scope while a read guard
\* holds a page
C24_Witness ==
  /\ ~aborted
  /\ \E g \in GuardIds : guards[g] = EmptyGuard("write")
  /\ \E g \in GuardIds : guards[g].kind = "read" /\ guards[g].page_ # NoFrame


\* guard g holds a page
HoldsPage(g) == g.kind # "none" /\ g.page_ # NoFrame

\* the release of the page that guard g holds: one pin and its latch
Released(g) ==
  IF HoldsPage(g)
  THEN /\ PinCounts(bpm') = [PinCounts(bpm) EXCEPT ![g.page_] = @ - 1]
       /\ latch' = Unlatched(latch, g)
  ELSE PinCounts(bpm') = PinCounts(bpm) /\ latch' = latch

\* the move constructor: the new guard carries what the source carried,
\* the source is empty, no pin count and no latch has changed
MoveConstructed ==
  \E that \in GuardIds, g \in GuardIds :
    /\ that # g
    /\ guards[g].kind = "none"
    /\ guards'[g] = guards[that]
    /\ guards'[that] = EmptyGuard(guards[that].kind)
    /\ \A o \in GuardIds \ {that, g} : guards'[o] = guards[o]
    /\ bpm' = bpm
    /\ latch' = latch

\* the move assignment: the destination's page is released, the destination
\* carries what the source carried and the source is empty; assigned from
\* itself, the guard releases its page and is empty
MoveAssigned ==
  \E that \in GuardIds, g \in GuardIds :
    /\ guards[that].kind = guards[g].kind
    /\ Released(guards[g])
    /\ guards'[that] = EmptyGuard(guards[that].kind)
    /\ guards'[g] = IF that = g THEN EmptyGuard(guards[g].kind)
                    ELSE guards[that]
    /\ \A o \in GuardIds \ {that, g} : guards'[o] = guards[o]
    /\ (that # g /\ HoldsPage(guards[that]) /\ HoldsPage(guards[g])
          /\ guards[that].page_ # guards[g].page_) =>
         /\ bpm'.pages_[guards[that].page_].pin_count_
              = bpm.pages_[guards[that].page_].pin_count_
         /\ bpm'.pages_[guards[g].page_].pin_count_
              = bpm.pages_[guards[g].page_].pin_count_ - 1

\* C25: a move never changes the pin count of the page the guard carries:
\* move construction leaves the source empty and every pin count unchanged;
\* move assignment into a guard that holds a page first releases that page
\* (pin_count - 1, latch released), then takes the source's page with its
\* pin_count unchanged, and leaves the source empty
C25_MovesKeepPins ==
  [][/\ GMoveConstruct => MoveConstructed
     /\ (GMoveAssign /\ ~aborted') => MoveAssigned]_vars

\* a guard that held a page was assigned the page of another guard: the
\* page it held is no longer pinned, the source is empty
C25_Witness ==
  /\ ~aborted
  /\ bpm_last.op = "MoveAssign"
  /\ Resident(bpm, bpm_last.page_id)
  /\ bpm.pages_[FrameOf(bpm, bpm_last.page_id)].pin_count_ = 0
  /\ \E that \in GuardIds, g \in GuardIds :
       /\ guards[that] = EmptyGuard("read")
       /\ guards[g].kind = "read"
       /\ guards[g].page_ \notin {NoFrame, FrameOf(bpm, bpm_last.page_id)}
       /\ bpm.pages_[guards[g].page_].pin_count_ = 1


\* the frames the replacer tracks as evictable
EvictableFrames(b) == {f \in DOMAIN b.pages_ : Evictable(b, f)}

\* what UnpinPage(page_id, is_dirty) has to leave of a pinned resident page
Unpinned(b, r, page_id, is_dirty) ==
  /\ r.ret
  /\ r.bpm.pages_[FrameOf(b, page_id)] =
       [b.pages_[FrameOf(b, page_id)] EXCEPT
          !.pin_count_ = @ - 1,
          !.is_dirty_ = b.pages_[FrameOf(b, page_id)].is_dirty_ \/ is_dirty]
  /\ \A f \in DOMAIN b.pages_ \ {FrameOf(b, page_id)} :
       r.bpm.pages_[f] = b.pages_[f]
  /\ EvictableFrames(r.bpm) =
       IF b.pages_[FrameOf(b, page_id)].pin_count_ = 1
       THEN EvictableFrames(b) \cup {FrameOf(b, page_id)}
       ELSE EvictableFrames(b)
  /\ Evictable(r.bpm, FrameOf(b, page_id))
       <=> r.bpm.pages_[FrameOf(b, page_id)].pin_count_ = 0
  /\ r.bpm.page_table_ = b.page_table_
  /\ r.bpm.free_list_ = b.free_list_
  /\ r.bpm.disk_ = b.disk_

\* C26: UnpinPage(p, d) returns false and changes no state when p is not
\* resident or its pin_count is 0; otherwise it returns true, lowers
\* pin_count by exactly 1, sets the dirty flag to (old dirty OR d) and marks
\* the frame evictable exactly when pin_count reached 0
C26_UnpinPage ==
  \A page_id \in PageIds, is_dirty \in BOOLEAN :
    LET r == UnpinPage(bpm, page_id, is_dirty)
    IN IF Resident(bpm, page_id)
          /\ bpm.pages_[FrameOf(bpm, page_id)].pin_count_ > 0
       THEN Unpinned(bpm, r, page_id, is_dirty)
       ELSE ~r.ret /\ r.bpm = bpm

\* a dirty page that is pinned twice, next to a resident page that is not
\* pinned: UnpinPage(p, false) meets each of its cases
C26_Witness ==
  /\ \E p \in PageIds :
       /\ Resident(bpm, p)
       /\ bpm.pages_[FrameOf(bpm, p)].pin_count_ = 2
       /\ bpm.pages_[FrameOf(bpm, p)].is_dirty_
       /\ UnpinPage(bpm, p, FALSE).bpm.pages_[FrameOf(bpm, p)].is_dirty_
  /\ \E p \in PageIds :
       /\ Resident(bpm, p)
       /\ bpm.pages_[FrameOf(bpm, p)].pin_count_ = 0
       /\ ~UnpinPage(bpm, p, TRUE).ret
  /\ \E p \in PageIds : p < bpm.next_page_id_ /\ ~Resident(bpm, p)


\* the frames the replacer knows of
TrackedFrames(r) ==
  DOMAIN r.node_store_
    \cup {r.less_k_list_[i] : i \in 1..Len(r.less_k_list_)}
    \cup {r.more_k_list_[i] : i \in 1..Len(r.more_k_list_)}

\* what DeletePage(page_id) has to leave of a resident page that is not pinned
Deleted(b, r, page_id) ==
  /\ r.ret
  /\ DOMAIN r.bpm.page_table_ = DOMAIN b.page_table_ \ {page_id}
  /\ \A p \in DOMAIN r.bpm.page_table_ :
       r.bpm.page_table_[p] = b.page_table_[p]
  /\ FrameOf(b, page_id) \notin TrackedFrames(r.bpm.replacer_)
  /\ TrackedFrames(r.bpm.replacer_)
       = TrackedFrames(b.replacer_) \ {FrameOf(b, page_id)}
  /\ EvictableFrames(r.bpm) = EvictableFrames(b) \ {FrameOf(b, page_id)}
  /\ r.bpm.free_list_ = Append(b.free_list_, FrameOf(b, page_id))
  /\ r.bpm.pages_[FrameOf(b, page_id)].page_id_ = INVALID_PAGE_ID
  /\ r.bpm.pages_[FrameOf(b, page_id)].pin_count_ = 0
  /\ ~r.bpm.pages_[FrameOf(b, page_id)].is_dirty_
  /\ \A f \in DOMAIN b.pages_ \ {FrameOf(b, page_id)} :
       r.bpm.pages_[f] = b.pages_[f]
  /\ NewPage(r.bpm).page # NoFrame
  /\ b.free_list_ = <<>> => NewPage(r.bpm).page = FrameOf(b, page_id)

\* C27: DeletePage(p) returns true and changes nothing when p is not
\* resident; returns false and changes nothing when p is resident with
\* pin_count > 0; otherwise it returns true, removes p from the page table
\* and the frame from the replacer, and puts the frame back on the free list
\* with page_id INVALID, pin_count 0 and dirty false, where a following
\* NewPage takes it from
C27_DeletePage ==
  \A page_id \in PageIds :
    LET r == DeletePage(bpm, page_id)
    IN IF ~Resident(bpm, page_id) THEN r.ret /\ r.bpm = bpm
       ELSE IF bpm.pages_[FrameOf(bpm, page_id)].pin_count_ > 0
       THEN ~r.ret /\ r.bpm = bpm
       ELSE Deleted(bpm, r, page_id)

\* the pool is full with a pinned page and a dirty page that is not pinned,
\* and a third page has been evicted: DeletePage meets each of its cases
C27_Witness ==
  /\ bpm.free_list_ = <<>>
  /\ \E p \in PageIds :
       Resident(bpm, p) /\ bpm.pages_[FrameOf(bpm, p)].pin_count_ > 0
  /\ \E p \in PageIds :
       /\ Resident(bpm, p)
       /\ bpm.pages_[FrameOf(bpm, p)].pin_count_ = 0
       /\ bpm.pages_[FrameOf(bpm, p)].is_dirty_
       /\ DeletePage(bpm, p).bpm.free_list_ = <<FrameOf(bpm, p)>>
  /\ \E p \in PageIds : p < bpm.next_page_id_ /\ ~Resident(bpm, p)


\* buffer pool a differs from b at most in the disk and in the dirty flags
SameButDiskAndDirty(a, b) ==
  /\ a.page_table_ = b.page_table_
  /\ a.free_list_ = b.free_list_
  /\ a.replacer_ = b.replacer_
  /\ a.next_page_id_ = b.next_page_id_
  /\ \A f \in DOMAIN b.pages_ :
       a.pages_[f] = [b.pages_[f] EXCEPT !.is_dirty_ = a.pages_[f].is_dirty_]

\* what FlushPage(page_id) has to leave of a resident page
Flushed(b, r, page_id) ==
  /\ r.ret
  /\ r.bpm.disk_ =
       [b.disk_ EXCEPT ![page_id] = b.pages_[FrameOf(b, page_id)].data_]
  /\ ~r.bpm.pages_[FrameOf(b, page_id)].is_dirty_
  /\ \A f \in DOMAIN b.pages_ \ {FrameOf(b, page_id)} :
       r.bpm.pages_[f].is_dirty_ = b.pages_[f].is_dirty_
  /\ SameButDiskAndDirty(r.bpm, b)

\* what FlushAllPages() has to leave
AllFlushed(b, a) ==
  /\ \A p \in DiskPageIds :
       a.disk_[p] = IF Resident(b, p) THEN b.pages_[FrameOf(b, p)].data_
                    ELSE b.disk_[p]
  /\ \A f \in DOMAIN b.pages_ :
       a.pages_[f].is_dirty_ =
         (b.pages_[f].is_dirty_
            /\ ~\E p \in DOMAIN b.page_table_ : b.page_table_[p] = f)
  /\ SameButDiskAndDirty(a, b)

\* C28: FlushPage(p) on a resident page writes the page and clears its dirty
\* flag even while the page is pinned, and leaves pin_count, the page table,
\* the free list and the replacer unchanged; on a page that is not resident
\* it returns false and changes nothing; FlushAllPages has the same effect
\* on every resident page
C28_Flush ==
  /\ \A page_id \in PageIds :
       LET r == FlushPage(bpm, page_id)
       IN IF Resident(bpm, page_id) THEN Flushed(bpm, r, page_id)
          ELSE ~r.ret /\ r.bpm = bpm
  /\ AllFlushed(bpm, FlushAllPages(bpm))

\* a dirty page is pinned and its bytes are not on disk, next to a page that
\* is not resident: FlushPage meets both of its cases
C28_Witness ==
  /\ \E p \in PageIds :
       /\ Resident(bpm, p)
       /\ bpm.pages_[FrameOf(bpm, p)].pin_count_ > 0
       /\ bpm.pages_[FrameOf(bpm, p)].is_dirty_
       /\ bpm.disk_[p] # bpm.pages_[FrameOf(bpm, p)].data_
       /\ FlushPage(bpm, p).bpm.disk_[p] = bpm.pages_[FrameOf(bpm, p)].data_
       /\ FlushAllPages(bpm).disk_[p] = bpm.pages_[FrameOf(bpm, p)].data_
  /\ \E p \in PageIds : p < bpm.next_page_id_ /\ ~Resident(bpm, p)


\* the threads whose Insert has allocated the new bucket page of a split and
\* is about to map it (lines 117-124)
Splitting == {t \in Threads : th[t].pc = "split"}

\* the directory page of the split of thread t before and after
\* IncrLocalDepth and UpdateDirectoryMapping
SplitBefore(t) ==
  PageAt(Context(bpm, latch, th[t]), th[t].directory_page, "directory")

SplitAfter(t) ==
  SplitMapping(SplitBefore(t), th[t].bucket_idx, th[t].new_page_id)

\* bit n of x
BitOf(x, n) == (x \div Bit(n)) % 2

\* the live slots that agree with bucket_idx of thread t on the low d - 1
\* bits, d the local depth after the split
SplitSlots(t) ==
  {i \in LiveSlots(SplitBefore(t)) :
     i % Bit(SplitBefore(t).local_depths_[th[t].bucket_idx])
       = th[t].bucket_idx
           % Bit(SplitBefore(t).local_depths_[th[t].bucket_idx])}

\* C29: when Insert splits the full bucket of slot bucket_idx to local depth
\* d, the slots that agree with bucket_idx on the low d - 1 bits get local
\* depth d; those whose bit d - 1 equals that of bucket_idx keep the old
\* bucket page id, those whose bit d - 1 is flipped get the new one
C29_SplitKeepsOwnHalf ==
  \A t \in Splitting :
    \A i \in SplitSlots(t) :
      /\ SplitAfter(t).local_depths_[i]
           = SplitBefore(t).local_depths_[th[t].bucket_idx] + 1
      /\ SplitAfter(t).bucket_page_ids_[i] =
           IF BitOf(i, SplitBefore(t).local_depths_[th[t].bucket_idx])
                = BitOf(th[t].bucket_idx,
                        SplitBefore(t).local_depths_[th[t].bucket_idx])
           THEN SplitBefore(t).bucket_page_ids_[th[t].bucket_idx]
           ELSE th[t].new_page_id

\* C29 as the code has it: the slots that agree with bucket_idx on the low
\* d - 1 bits get local depth d; those whose bit d - 1 is 0 get the new
\* bucket page id and those whose bit d - 1 is 1 keep the old one, whatever
\* bit d - 1 of bucket_idx is: the mapping is the same for every slot b of
\* the bucket that the key of the Insert could have hashed to
C29_SplitGivesNewPageToLowHalf ==
  \A t \in Splitting :
    \A b \in SplitSlots(t), i \in SplitSlots(t) :
      /\ SplitMapping(SplitBefore(t), b, th[t].new_page_id).local_depths_[i]
           = SplitBefore(t).local_depths_[th[t].bucket_idx] + 1
      /\ SplitMapping(SplitBefore(t), b, th[t].new_page_id)
           .bucket_page_ids_[i] =
           IF BitOf(i, SplitBefore(t).local_depths_[th[t].bucket_idx]) = 0
           THEN th[t].new_page_id
           ELSE SplitBefore(t).bucket_page_ids_[th[t].bucket_idx]

\* an Insert that found a directory of global depth 0 has split the bucket
\* and returned true: slot 0 holds the page allocated by the split, slot 1
\* the page the bucket had
C29_Witness ==
  \E t \in Returned("Insert") :
    /\ th[t].result
    /\ th[t].dir.global_depth_ = 0
    /\ th[t].dir.bucket_page_ids_[0] # INVALID_PAGE_ID
    /\ DirectoryAt(th[t].key).global_depth_ = 1
    /\ DirectoryAt(th[t].key).bucket_page_ids_[1]
         = th[t].dir.bucket_page_ids_[0]
    /\ DirectoryAt(th[t].key).bucket_page_ids_[0]
         \notin {INVALID_PAGE_ID, th[t].dir.bucket_page_ids_[0]}
    /\ DirectoryAt(th[t].key).local_depths_[0] = 1
    /\ DirectoryAt(th[t].key).local_depths_[1] = 1

\* the thread holds the latch of a page through the guard
Latches(g) == g.kind \in {"read", "write"} /\ g.page_ # NoFrame

\* C30: GetValue, Insert and Remove follow latch crabbing: the header latch
\* is released as soon as the directory page is latched, so that a thread
\* that asks for the latch of a bucket page, or has had one, holds no header
\* latch; the directory latch is released as soon as the bucket page is
\* latched, but for the split path of Insert, so that a Remove that goes on
\* to the next bucket of its merge loop holds no directory latch
C30_LatchCrabbing ==
  \A t \in Threads :
    /\ th[t].pc \in {"bucket", "merge", "split"} => ~Latches(th[t].header_guard)
    /\ th[t].pc = "merge" => ~Latches(th[t].directory_guard)

\* the header latch is released before the bucket page is latched in Insert
\* only
InsertReleasesHeader ==
  \A t \in Threads :
    (th[t].pc \in {"bucket", "split"} /\ th[t].op = "Insert")
      => ~Latches(th[t].header_guard)


\* the basic guards that hold a page and can be upgraded without waiting
Upgradable(write) ==
  {g \in GuardIds :
     /\ guards[g].kind = "basic"
     /\ guards[g].bpm_
     /\ guards[g].page_ # NoFrame
     /\ IF write THEN CanWLatch(latch, guards[g].page_)
        ELSE CanRLatch(latch, guards[g].page_)}

\* the result of guard.UpgradeWrite() / guard.UpgradeRead()
Upgraded(g, write) ==
  IF write THEN UpgradeWrite(bpm, latch, guards[g])
  ELSE UpgradeRead(bpm, latch, guards[g])

\* UpgradeRead and UpgradeWrite leave every pin count unchanged and return a
\* guard of the page that holds the latch
UpgradeKeepsPin ==
  ~aborted =>
    \A write \in BOOLEAN :
      \A g \in Upgradable(write) :
        /\ ~Upgraded(g, write).aborted
        /\ Upgraded(g, write).bpm = bpm
        /\ Upgraded(g, write).guard.kind = IF write THEN "write" ELSE "read"
        /\ Upgraded(g, write).guard.bpm_
        /\ Upgraded(g, write).guard.page_ = guards[g].page_
        /\ Upgraded(g, write).latch =
             IF write THEN WLatch(latch, guards[g].page_)
             ELSE RLatch(latch, guards[g].page_)

\* C31: UpgradeRead and UpgradeWrite on a basic guard that holds a page
\* leave the pin count unchanged and hand the returned guard the latch, the
\* pin and the dirty flag of the basic guard, so that the UnpinPage of the
\* Drop of the returned guard reports dirty when the basic guard was dirty
C31_UpgradeKeepsDirty ==
  /\ UpgradeKeepsPin
  /\ ~aborted =>
       \A write \in BOOLEAN :
         \A g \in Upgradable(write) :
           /\ Upgraded(g, write).guard.is_dirty_ = guards[g].is_dirty_
           /\ guards[g].is_dirty_ =>
                Drop(Upgraded(g, write).bpm, Upgraded(g, write).latch,
                     Upgraded(g, write).guard)
                  .bpm.pages_[guards[g].page_].is_dirty_


\* the tracked frames of replacer r whose evictable flag is true
EvictableNodes(r) ==
  {f \in DOMAIN r.node_store_ : r.node_store_[f].is_evictable_}

\* the last call was SetEvictable / RecordAccess
SetEvictableCalled == rep_last.op = "SetEvictable"

AccessRecorded == rep_last.op = "RecordAccess"

\* C32: after any sequence of RecordAccess, SetEvictable, Evict and Remove
\* calls Size() is the number of tracked frames whose evictable flag is true
\* and is at most num_frames; SetEvictable changes Size() only when the flag
\* changes: the same call again, or a call for a frame with no recorded
\* access, changes nothing; a frame is not evictable after its first
\* RecordAccess
C32_SizeCountsEvictable ==
  /\ ReplacerSize(rep) = Cardinality(EvictableNodes(rep))
  /\ ReplacerSize(rep) <= rep.replacer_size_
  /\ SetEvictableCalled =>
       /\ DOMAIN rep.node_store_ = DOMAIN rep_last.before.node_store_
       /\ ReplacerSize(rep) - ReplacerSize(rep_last.before)
            = Cardinality(EvictableNodes(rep) \ EvictableNodes(rep_last.before))
              - Cardinality(EvictableNodes(rep_last.before)
                              \ EvictableNodes(rep))
       /\ EvictableNodes(rep) = EvictableNodes(rep_last.before)
            => rep = rep_last.before
  /\ \A f \in RepFrames, e \in BOOLEAN :
       /\ SetEvictable(SetEvictable(rep, f, e), f, e) = SetEvictable(rep, f, e)
       /\ f \notin DOMAIN rep.node_store_ => SetEvictable(rep, f, e) = rep
  /\ AccessRecorded =>
       /\ ReplacerSize(rep) = ReplacerSize(rep_last.before)
       /\ EvictableNodes(rep) = EvictableNodes(rep_last.before)
       /\ \A f \in DOMAIN rep.node_store_
                     \ DOMAIN rep_last.before.node_store_ :
            ~rep.node_store_[f].is_evictable_

\* a SetEvictable call has changed nothing on a replacer where one frame is
\* evictable, another is tracked and not evictable and a third has no
\* recorded access
C32_Witness ==
  /\ SetEvictableCalled
  /\ rep = rep_last.before
  /\ ReplacerSize(rep) = 1
  /\ Cardinality(DOMAIN rep.node_store_) = 2


\* the threads that hold the latch of a frame through their guard: from the
\* latch call of FetchPageRead / FetchPageWrite to the unlatch of Drop
LatchHolders == {t \in LiveThreads : th[t].pc \in {"held", "unpinned"}}

\* C33: with concurrent threads, whenever a thread holds the read or write
\* latch of a frame through a guard, the pin_count of the frame is greater
\* than 0, in every step of the Drop of the guard as well; so the frame
\* still holds the page the thread fetched: NewPage / FetchPage have not
\* evicted, reset or reassigned it
C33_LatchedFrameIsPinned ==
  \A t \in LatchHolders :
    /\ bpm.pages_[guards[t].page_].pin_count_ > 0
    /\ bpm.pages_[guards[t].page_].page_id_ = th[t].bucket_page_id

\* a frame whose latch a thread holds has been given to another page
LatchedFrameReassigned ==
  \E t \in LatchHolders :
    /\ bpm.pages_[guards[t].page_].page_id_ # th[t].bucket_page_id
    /\ bpm.pages_[guards[t].page_].pin_count_ > 0

\* outside Drop the latch holder's frame is pinned and holds its page
HeldFrameIsPinned ==
  \A t \in LiveThreads :
    th[t].pc = "held" =>
      /\ bpm.pages_[guards[t].page_].pin_count_ > 0
      /\ bpm.pages_[guards[t].page_].page_id_ = th[t].bucket_page_id


\* the frame ids of buffer pool manager b
FrameIds(b) == 0..(b.pool_size_ - 1)

\* a BUSTUB_ENSURE of the replacer of b has failed
ReplacerAborted(b) == b.replacer_.ensure_failed_

\* C34: no sequence of NewPage, FetchPage, UnpinPage, FlushPage and
\* DeletePage calls reaches an abort of the replacer: every frame id the
\* buffer pool manager passes to RecordAccess, SetEvictable and Remove lies
\* in [0, pool_size), and DeletePage calls Remove only for a frame that the
\* replacer tracks as evictable
C34_NoReplacerAbort ==
  /\ ~ReplacerAborted(bpm)
  /\ bpm.replacer_.replacer_size_ = bpm.pool_size_
  /\ FreeFrames(bpm) \subseteq FrameIds(bpm)
  /\ \A p \in DOMAIN bpm.page_table_ : bpm.page_table_[p] \in FrameIds(bpm)
  /\ TrackedFrames(bpm.replacer_) \subseteq FrameIds(bpm)
  /\ Evict(bpm.replacer_).ok => Evict(bpm.replacer_).frame_id \in FrameIds(bpm)
  /\ \A page_id \in PageIds :
       /\ (Resident(bpm, page_id)
             /\ bpm.pages_[FrameOf(bpm, page_id)].pin_count_ = 0)
            => Evictable(bpm, FrameOf(bpm, page_id))
       /\ ~ReplacerAborted(DeletePage(bpm, page_id).bpm)
       /\ ~ReplacerAborted(FetchPage(bpm, page_id).bpm)
       /\ ~ReplacerAborted(FlushPage(bpm, page_id).bpm)
       /\ \A is_dirty \in BOOLEAN :
            ~ReplacerAborted(UnpinPage(bpm, page_id, is_dirty).bpm)
  /\ ~ReplacerAborted(NewPage(bpm).bpm)

\* DeletePage has acted: every frame of the pool has been handed out once,
\* a frame is back on the free list and out of the replacer, which has not
\* aborted, and a pinned page is resident that DeletePage refuses
C34_Witness ==
  /\ bpm.next_page_id_ >= bpm.pool_size_
  /\ \E f \in FreeFrames(bpm) : f \notin TrackedFrames(bpm.replacer_)
  /\ ~ReplacerAborted(bpm)
  /\ \E p \in PageIds : Resident(bpm, p) /\ ~DeletePage(bpm, p).ret
====
